---- MODULE Spec2Model ----
(***************************************************************************)
(* Access-control layer of the job-portal admin backend: the credential    *)
(* store (Admin documents), the token issuer/verifier (generateToken and   *)
(* jwt.verify), the authorization gate (protect, authorize,                *)
(* checkPermission) and the auth routes (login, profile, logout, refresh). *)
(*                                                                         *)
(* Time is counted in whole seconds, the unit of the token's iat and exp.  *)
(* One request at a time is followed from its arrival to its response.    *)
(* Every await of its handler is a separate step, so the operator's writes *)
(* to the credential store and the clock interleave with it.               *)
(*                                                                         *)
(* The second half of the module covers the resource routes of the two     *)
(* backends, each family under a specification of its own: applying for a  *)
(* job (SpecApply), bulk updates (SpecBulk), paginated lists (SpecList),   *)
(* statistics reports (SpecStats), the cached names of jobs (SpecCatalog), *)
(* the middleware stack of the admin server (SpecPipe) and the writes      *)
(* under a unique index (SpecUnique).                                      *)
(***************************************************************************)
EXTENDS Integers, Sequences, FiniteSets, TLC

\* ------------------------------------------------------------------ bounds
MaxTicks == 3       \* clock advances in one behaviour
MaxIssued == 1      \* tokens issued by login and refresh in one behaviour
MaxKeys == 2        \* keys in the updates object of a bulk update
MaxDocs == 3        \* documents matching the filter of a list request
MaxPage == 3        \* page numbers a list request asks for
MaxLimit == 2       \* small page sizes a list request asks for

\* ------------------------------------------------------- program constants
JWT_EXPIRE == 604800            \* '7d', in seconds
MinPasswordLength == 6

Roles == {"super_admin", "admin", "moderator"}

Permissions ==
  {"manage_users", "manage_jobs", "manage_companies", "manage_applications",
   "view_analytics", "manage_admins", "manage_content", "manage_categories",
   "manage_faqs"}

\* The stored principals, and the id of a principal that has since been
\* removed from the collection while one of its tokens is still in use.
AdminIds == {"a1", "a2"}
FormerId == "a0"
NoId == "none"

\* --------------------------------------------------------------- passwords
\* A password value: its text and how many times bcrypt was applied to it.
Plain(text) == [text |-> text, hashed |-> 0]

\* bcrypt.hash: a one-way image of its argument.
bcryptHash(password) == [password EXCEPT !.hashed = @ + 1]

\* adminSchema.methods.comparePassword
comparePassword(doc, enteredPassword) == doc.password = bcryptHash(enteredPassword)

\* ------------------------------------------------------------------ emails
\* An email is a sequence of characters; the schema's setter lowercases it.
LowerChar(c) ==
  CASE c = "A" -> "a"
    [] c = "B" -> "b"
    [] c = "Z" -> "z"
    [] OTHER -> c

emailSetterIdentity(email) == email

emailSetter(email) == [i \in DOMAIN email |-> LowerChar(email[i])]

\* body('email').isEmail(): local part, "@", domain.
isEmail(email) ==
  /\ Len(email) = 3
  /\ email[2] = "@"
  /\ email[1] # "@"
  /\ email[3] # "@"

\* body('password').isLength({ min: 6 })
isLongEnough(password) == Len(password.text) >= MinPasswordLength

\* ---------------------------------------------------------- credential store
NoDoc ==
  [email |-> <<>>, password |-> Plain(""), role |-> "none", permissions |-> {},
   isActive |-> FALSE, lastLogin |-> -1, updatedAt |-> -1]

SeedAdmins ==
  [id \in AdminIds |->
     IF id = "a1"
       THEN [email |-> <<"a", "@", "x">>, password |-> bcryptHash(Plain("secret1")),
             role |-> "super_admin", permissions |-> {},
             isActive |-> TRUE, lastLogin |-> 0, updatedAt |-> 0]
       ELSE [email |-> <<"b", "@", "x">>, password |-> bcryptHash(Plain("secret2")),
             role |-> "admin", permissions |-> {"manage_jobs"},
             isActive |-> TRUE, lastLogin |-> -1, updatedAt |-> 0]]

\* Admin.findById: the id of the stored document, or NoId.
findById(store, id) == IF id \in DOMAIN store THEN id ELSE NoId

\* Admin.findOne({ email }): the filter is cast through the schema, so the
\* submitted email goes through the same setter as a stored one.
findOne(store, email) ==
  LET hits == {id \in DOMAIN store : store[id].email = emailSetter(email)}
  IN  IF hits = {} THEN NoId ELSE CHOOSE id \in hits : TRUE

\* adminSchema.methods.hasPermission
hasPermissionStoredOnly(doc, permission) == permission \in doc.permissions

hasPermission(doc, permission) ==
  permission \in doc.permissions \/ doc.role = "super_admin"

\* adminSchema.pre('save'): hash the password only when it was modified.
preSaveAlways(doc, modified) == [doc EXCEPT !.password = bcryptHash(doc.password)]

preSave(doc, modified) ==
  IF "password" \notin modified
    THEN doc
    ELSE [doc EXCEPT !.password = bcryptHash(doc.password)]

\* doc.save() with { timestamps: true }: the pre-save hook runs, updatedAt is
\* stamped, and only the paths that changed are written to the stored
\* document.
save(store, id, loaded, changed, t) ==
  LET modified == {f \in DOMAIN changed : changed[f] # loaded[f]}
      hooked == preSave(changed, modified)
      stamped == [hooked EXCEPT !.updatedAt = t]
  IN  IF modified = {} THEN store
      ELSE [store EXCEPT ![id] =
              [f \in DOMAIN stamped |->
                 IF stamped[f] # loaded[f] THEN stamped[f] ELSE store[id][f]]]

\* ------------------------------------------------------------------- tokens
NoTok == [id |-> NoId, iat |-> 0, exp |-> 0]

generateTokenNoExpiry(id, t) == [id |-> id, iat |-> t, exp |-> t + 2 * JWT_EXPIRE]

generateTokenFixedIat(id, t) == [id |-> id, iat |-> 0, exp |-> JWT_EXPIRE]

\* jwt.sign({ id }, JWT_SECRET, { expiresIn: JWT_EXPIRE })
generateToken(id, t) == [id |-> id, iat |-> t, exp |-> t + JWT_EXPIRE]

\* Authorization header as the gate sees it.
NoHeader == [kind |-> "none", tok |-> NoTok]
EmptyBearer == [kind |-> "empty", tok |-> NoTok]
GarbageBearer == [kind |-> "garbage", tok |-> NoTok]
Bearer(tok) == [kind |-> "jwt", tok |-> tok]

\* jwt.verify(token, JWT_SECRET) at clock t.
jwtVerify(hdr, t) ==
  IF hdr.kind # "jwt" THEN [error |-> "JsonWebTokenError", id |-> NoId]
  ELSE IF t >= hdr.tok.exp THEN [error |-> "TokenExpiredError", id |-> NoId]
  ELSE [error |-> "none", id |-> hdr.tok.id]

\* ---------------------------------------------------------------- responses
Response(status, message) == [pass |-> FALSE, status |-> status, message |-> message]
PassOn == [pass |-> TRUE, status |-> 0, message |-> ""]

\* protect, up to the first await: header, token, verification.
protectVerify(hdr, t) ==
  IF hdr.kind = "none"
    THEN Response(401, "Authorization header with Bearer token is required")
  ELSE IF hdr.kind = "empty"
    THEN Response(401, "Access token is required")
  ELSE LET decoded == jwtVerify(hdr, t)
       IN  IF decoded.error = "JsonWebTokenError" THEN Response(401, "Invalid token")
           ELSE IF decoded.error = "TokenExpiredError"
             THEN Response(401, "Token has expired")
           ELSE IF decoded.id = NoId THEN Response(401, "Invalid token format")
           ELSE PassOn

protectLoadIgnoresActive(store, id) ==
  IF findById(store, id) = NoId THEN Response(401, "Admin not found") ELSE PassOn

protectLoadDeactivated403(store, id) ==
  IF findById(store, id) = NoId THEN Response(401, "Admin not found")
  ELSE IF ~store[id].isActive THEN Response(403, "Admin account is deactivated")
  ELSE PassOn

\* protect, after Admin.findById resolved.
protectLoad(store, id) ==
  IF findById(store, id) = NoId THEN Response(401, "Admin not found")
  ELSE IF ~store[id].isActive THEN Response(401, "Admin account is deactivated")
  ELSE PassOn

\* protect, when Admin.findById rejects: the catch-all of the middleware.
protectCatch == Response(500, "Authentication failed")

\* authorize(...roles)
authorize(roles, doc) ==
  IF doc.role \notin roles
    THEN Response(403, "Role is not authorized to access this route")
    ELSE PassOn

checkPermissionAs401(permission, doc) ==
  IF ~hasPermission(doc, permission)
    THEN Response(401, "Permission is required to access this route")
    ELSE PassOn

\* checkPermission(permission)
checkPermission(permission, doc) ==
  IF ~hasPermission(doc, permission)
    THEN Response(403, "Permission is required to access this route")
    ELSE PassOn

\* ------------------------------------------------------------------- routes
\* layer: what follows protect on the route.
Route(name, layer, perm, roles) ==
  [name |-> name, layer |-> layer, perm |-> perm, roles |-> roles]

AuthRoutes ==
  {Route("profile", "none", "none", {}),
   Route("logout", "none", "none", {}),
   Route("refresh", "none", "none", {})}

ResourceRoutes ==
  {Route("jobs", "perm", "manage_jobs", {}),
   Route("users", "perm", "manage_users", {}),
   Route("restricted", "role", "none", {"super_admin"})}

ProtectedRoutes == AuthRoutes \cup ResourceRoutes
NoRoute == Route("none", "none", "none", {})

\* The layer after protect, applied to req.admin.
layerCheck(route, doc) ==
  IF route.layer = "perm" THEN checkPermission(route.perm, doc)
  ELSE IF route.layer = "role" THEN authorize(route.roles, doc)
  ELSE PassOn

\* ------------------------------------------------------------------- state
VARIABLES
  admins,     \* the Admin collection: id -> document
  now,        \* the server clock, in seconds
  ticks,      \* how often the clock has advanced
  issued,     \* every token handed out so far, with the time it was issued
  loggedOut,  \* the token last presented to a successful POST /logout
  req,        \* the request being served, if any
  last        \* the request answered by the step just taken, with its response

vars == <<admins, now, ticks, issued, loggedOut, req, last>>

\* The collections behind the resource routes (jobs, companies, categories,
\* users, applications) and the requests to those routes that are in
\* flight, one per lane.  The auth routes above touch neither.
VARIABLES db, calls

dataVars == <<db, calls>>

allVars == <<vars, dataVars>>

\* No resource request is being followed.
NoData ==
  /\ db = [applications |-> <<>>, jobs |-> <<>>]
  /\ calls = <<>>

IdleReq ==
  [pc |-> "idle", route |-> NoRoute, hdr |-> NoHeader,
   email |-> <<>>, password |-> Plain(""), snapId |-> NoId, snap |-> NoDoc,
   status |-> 0, message |-> "", by |-> "none", ran |-> FALSE, token |-> NoTok,
   \* what the request met, recorded for the properties below
   lived |-> "n/a", startInactive |-> FALSE, afterLogout |-> FALSE,
   loaded |-> "none", expected |-> FALSE]

Answer(r, by, resp) ==
  [r EXCEPT !.pc = "done", !.by = by, !.status = resp.status, !.message = resp.message]

\* The record of one issuance: the token, when and for whom it was made.
Issue(id, t) == [tok |-> generateToken(id, t), at |-> t, to |-> id]

Tokens == {e.tok : e \in issued}

Headers == {NoHeader, EmptyBearer, GarbageBearer} \cup {Bearer(t) : t \in Tokens}

Free == req.pc = "idle"

\* The response leaves the server.
Finish(answered) ==
  /\ req' = IdleReq
  /\ last' = answered

\* The step answers no request.
Silent == last' = IdleReq

Continue(r) ==
  /\ req' = r
  /\ Silent

\* MaxIssued caps the tokens that login and refresh hand out on top of the
\* two in use from the start.
CanIssue == Cardinality(issued) < MaxIssued + 2

\* The server is up, the first principal has logged in at time 0, and a
\* token of a removed principal is still in a client's hands.
Init ==
  /\ admins = SeedAdmins
  /\ now = 0
  /\ ticks = 0
  /\ issued = {Issue(FormerId, 0), Issue("a1", 0)}
  /\ loggedOut = NoTok
  /\ req = IdleReq
  /\ last = IdleReq
  /\ NoData

\* ------------------------------------------------------------- environment
\* The clock is observed at the instants 0, 1, JWT_EXPIRE, JWT_EXPIRE + 1,
\* 2 * JWT_EXPIRE, ...: a second apart and a token lifetime apart in turn.
ClockStep(k) == IF k % 2 = 0 THEN 1 ELSE JWT_EXPIRE - 1

Tick ==
  /\ ticks < MaxTicks
  /\ now' = now + ClockStep(ticks)
  /\ ticks' = ticks + 1
  /\ Silent
  /\ UNCHANGED <<admins, issued, loggedOut, req, db, calls>>

\* An operator sets isActive to false on the stored document; no route of the
\* admin backend writes this field.
DeactivateAdmin(id) ==
  /\ admins[id].isActive
  /\ admins' = [admins EXCEPT ![id].isActive = FALSE]
  /\ Silent
  /\ UNCHANGED <<now, ticks, issued, loggedOut, req, db, calls>>

\* ------------------------------------------------ what a request met (ghost)
\* Where the clock stands against the end of the token's lifetime, counted
\* from the time the token was issued.
Lived(tok, t) ==
  LET e == CHOOSE e \in issued : e.tok = tok
  IN  IF t < e.at + JWT_EXPIRE THEN "before"
      ELSE IF t = e.at + JWT_EXPIRE THEN "at" ELSE "after"

\* What the collection holds for the token's principal.
Stored(store, id) ==
  IF id \notin DOMAIN store THEN "absent"
  ELSE IF store[id].isActive THEN "active" ELSE "inactive"

SameEmailIgnoringCase(e1, e2) ==
  /\ Len(e1) = Len(e2)
  /\ \A i \in 1 .. Len(e1) : LowerChar(e1[i]) = LowerChar(e2[i])

\* The login predicate of the specification, on the collection as it is.
LoginExpected(store, email, password) ==
  \E id \in DOMAIN store :
    /\ SameEmailIgnoringCase(store[id].email, email)
    /\ store[id].isActive
    /\ store[id].password = bcryptHash(password)

\* ------------------------------------------------------ protected requests
\* A request to a protected route arrives: protect runs up to its first
\* await (header, token, jwt.verify).
StartProtected(route, hdr) ==
  /\ Free
  /\ route.name = "refresh" => CanIssue
  /\ LET v == protectVerify(hdr, now)
         r == [IdleReq EXCEPT
                 !.route = route, !.hdr = hdr,
                 !.lived = IF hdr.kind = "jwt" THEN Lived(hdr.tok, now) ELSE "n/a",
                 !.startInactive =
                    hdr.kind = "jwt" /\ Stored(admins, hdr.tok.id) = "inactive",
                 !.afterLogout = hdr.kind = "jwt" /\ hdr.tok = loggedOut]
     IN  IF v.pass THEN Continue([r EXCEPT !.pc = "gate_load"])
         ELSE Finish(Answer(r, "protect", v))
  /\ UNCHANGED <<admins, now, ticks, issued, loggedOut, db, calls>>

\* POST /logout handler: answers, writes nothing.
logoutHandlerDeactivates(store, id) == [store EXCEPT ![id].isActive = FALSE]

logoutHandler(store, id) == store

\* Admin.findById resolved: the rest of protect, the layer after it, and the
\* handler up to its first await.
GateLoad ==
  /\ req.pc = "gate_load"
  /\ LET r == [req EXCEPT !.loaded = Stored(admins, req.hdr.tok.id)]
         id == r.hdr.tok.id
         p == protectLoad(admins, id)
         c == layerCheck(r.route, admins[id])
         h == [r EXCEPT !.ran = TRUE]
     IN  IF ~p.pass
           THEN /\ Finish(Answer(r, "protect", p))
                /\ UNCHANGED <<admins, loggedOut>>
         ELSE IF ~c.pass
           THEN /\ Finish(Answer(r, "layer", c))
                /\ UNCHANGED <<admins, loggedOut>>
         ELSE IF r.route.name = "refresh"
           THEN /\ Continue([h EXCEPT !.pc = "refresh_load"])
                /\ UNCHANGED <<admins, loggedOut>>
         ELSE IF r.route.name = "logout"
           THEN /\ Finish(Answer(h, "handler", Response(200, "Logged out successfully")))
                /\ admins' = logoutHandler(admins, id)
                /\ loggedOut' = r.hdr.tok
         ELSE /\ Finish(Answer(h, "handler", Response(200, "OK")))
              /\ UNCHANGED <<admins, loggedOut>>
  /\ UNCHANGED <<now, ticks, issued, db, calls>>

\* Admin.findById rejects (the database is unreachable): protect's catch-all.
GateLoadThrows ==
  /\ req.pc = "gate_load"
  /\ Finish(Answer([req EXCEPT !.loaded = "threw"], "protect", protectCatch))
  /\ UNCHANGED <<admins, now, ticks, issued, loggedOut, db, calls>>

\* POST /refresh handler after its own Admin.findById.
RefreshLoad ==
  /\ req.pc = "refresh_load"
  /\ LET r == req
         id == findById(admins, r.hdr.tok.id)
         token == Issue(id, now).tok
     IN  IF id = NoId \/ ~admins[id].isActive
           THEN /\ Finish(Answer(r, "handler",
                                   Response(401, "Admin not found or inactive")))
                /\ UNCHANGED issued
           ELSE /\ Finish(Answer([r EXCEPT !.token = token], "handler",
                                   Response(200, "Token refreshed successfully")))
                /\ issued' = issued \cup {Issue(id, now)}
  /\ UNCHANGED <<admins, now, ticks, loggedOut, db, calls>>

\* -------------------------------------------------------------------- login
EmailInputs ==
  {<<"a", "@", "x">>, <<"A", "@", "x">>, <<"b", "@", "x">>, <<"z", "@", "x">>,
   <<"a", "x">>}

PasswordInputs == {Plain("secret1"), Plain("secret2"), Plain("short")}

\* POST /login up to admin.save(): validation, Admin.findOne, the isActive
\* check and comparePassword on the loaded document.
LoginFind(email, password) ==
  /\ Free
  /\ CanIssue
  /\ LET r == [IdleReq EXCEPT
                 !.route = Route("login", "none", "none", {}),
                 !.email = email, !.password = password,
                 !.expected = LoginExpected(admins, email, password)]
         id == findOne(admins, email)
     IN  IF ~isEmail(email) \/ ~isLongEnough(password)
           THEN Finish(Answer(r, "validator", Response(400, "Validation errors")))
         ELSE IF id = NoId
           THEN Finish(Answer(r, "handler", Response(401, "Invalid credentials")))
         ELSE IF ~admins[id].isActive
           THEN Finish(Answer(r, "handler",
                                 Response(401, "Admin account is deactivated")))
         ELSE IF ~comparePassword(admins[id], password)
           THEN Finish(Answer(r, "handler", Response(401, "Invalid credentials")))
         ELSE Continue([r EXCEPT !.pc = "login_save", !.snapId = id,
                                    !.snap = admins[id]])
  /\ UNCHANGED <<admins, now, ticks, issued, loggedOut, db, calls>>

\* POST /login from admin.lastLogin = new Date() on: save, generateToken,
\* the 200 response.
LoginSave ==
  /\ req.pc = "login_save"
  /\ LET r == req
         token == Issue(r.snapId, now).tok
     IN  /\ admins' = save(admins, r.snapId, r.snap,
                            [r.snap EXCEPT !.lastLogin = now], now)
         /\ issued' = issued \cup {Issue(r.snapId, now)}
         /\ Finish(Answer([r EXCEPT !.token = token, !.ran = TRUE], "handler",
                              Response(200, "Login successful")))
  /\ UNCHANGED <<now, ticks, loggedOut, db, calls>>

\* ------------------------------------------------------------ specification
Next ==
  \/ Tick
  \/ \E id \in AdminIds : DeactivateAdmin(id)
  \/ \E route \in ProtectedRoutes, hdr \in Headers :
       StartProtected(route, hdr)
  \/ GateLoad
  \/ RefreshLoad
  \/ \E email \in EmailInputs, password \in PasswordInputs :
       LoginFind(email, password)
  \/ LoginSave

Spec == Init /\ [][Next]_vars

\* The same system with a database that can fail under the gate's lookup.
NextFault == Next \/ GateLoadThrows

SpecFault == Init /\ [][NextFault]_vars

\* The permission layer on its own: the second principal's role and stored
\* permission set range over every combination, both principals hold a
\* token, and every permission guards a route.
PermissionRoutes == {Route(p, "perm", p, {}) : p \in Permissions}

InitPerm ==
  /\ admins \in {[SeedAdmins EXCEPT !["a2"].role = r, !["a2"].permissions = ps] :
                   r \in Roles, ps \in SUBSET Permissions}
  /\ now = 0
  /\ ticks = 0
  /\ issued = {Issue(id, 0) : id \in AdminIds}
  /\ loggedOut = NoTok
  /\ req = IdleReq
  /\ last = IdleReq
  /\ NoData

NextPerm ==
  \/ \E route \in PermissionRoutes, hdr \in Headers \ {NoHeader} :
       StartProtected(route, hdr)
  \/ GateLoad

SpecPerm == InitPerm /\ [][NextPerm]_vars

\* =================================================================== claims
Answered == last.pc = "done"
Guarded == Answered /\ last.route.name # "login"
LoginDone == Answered /\ last.route.name = "login"
Principal == last.hdr.tok.id

\* What the layer after protect asks of a principal, in the words of the
\* specification.
LayerSatisfied(route, doc) ==
  /\ route.layer = "perm" => (route.perm \in doc.permissions \/ doc.role = "super_admin")
  /\ route.layer = "role" => doc.role \in route.roles

\* The request carried a Bearer token that verified, its principal was loaded
\* and active, and the layered check is met.
FullyPassed(r) ==
  /\ r.hdr.kind = "jwt"
  /\ r.lived = "before"
  /\ r.loaded = "active"
  /\ LayerSatisfied(r.route, admins[r.hdr.tok.id])

\* C1: the handler of a protected route runs only for a request that, within
\* that request, carried a Bearer token, verified, loaded an active
\* principal and passed the layered check; every other request is answered
\* by the gate and its handler never runs.
C1_HandlerOnlyAfterFullGate ==
  /\ Guarded =>
       /\ last.ran <=> FullyPassed(last)
       /\ last.ran <=> last.by = "handler"
       /\ ~last.ran => last.by \in {"protect", "layer"} /\ last.status # 200
  /\ req.ran => FullyPassed(req)

C1_Witness ==
  /\ Guarded /\ last.ran /\ last.route.layer = "perm"
  /\ admins[Principal].role # "super_admin"

AuthenticationCause(r) ==
  \/ r.hdr.kind # "jwt"
  \/ r.lived # "before"
  \/ r.loaded \in {"absent", "inactive"}

GateRejected == Guarded /\ last.by \in {"protect", "layer"}

\* C3 as claimed: a rejection by the gate carries 401 for an authentication
\* cause and 403 for a missing role or permission, and no other status.
C3_Only401Or403 ==
  GateRejected =>
    /\ last.status \in {401, 403}
    /\ AuthenticationCause(last) => last.status = 401
    /\ last.by = "layer" => last.status = 403

\* C3, amended: 401 for an authentication cause, 403 for a missing role or
\* permission, and 500 exactly when the principal lookup itself failed; no
\* other status.
C3_401Or403Or500OnLookupFailure ==
  GateRejected =>
    /\ last.status \in {401, 403, 500}
    /\ last.status = 500 <=> last.loaded = "threw"
    /\ AuthenticationCause(last) => last.status = 401
    /\ last.by = "layer" <=> last.status = 403
    /\ last.by = "layer" => last.loaded = "active" /\ ~LayerSatisfied(last.route, admins[Principal])

C3_Witness ==
  /\ GateRejected /\ last.status = 500 /\ last.loaded = "threw"
  /\ last.hdr.kind = "jwt" /\ last.lived = "before"

\* C4: checkPermission(p) lets an authenticated admin through iff p is in the
\* admin's stored permission set or the admin's role is super_admin; a
\* super_admin passes with an empty stored set, any other admin lacking p
\* gets 403.
C4_PermissionOrSuperAdmin ==
  (Guarded /\ last.route.layer = "perm" /\ last.loaded = "active") =>
    LET doc == admins[Principal]
        holds == last.route.perm \in doc.permissions \/ doc.role = "super_admin"
    IN  /\ last.ran <=> holds
        /\ holds => last.status = 200
        /\ ~holds => last.status = 403 /\ last.by = "layer"

C4_Witness ==
  /\ Guarded /\ last.route.layer = "perm" /\ last.ran
  /\ admins[Principal].role = "super_admin"
  /\ admins[Principal].permissions = {}

\* C5: a login whose input passes validation ends with 200 and a token iff,
\* when the handler looked, a principal with that email (compared without
\* regard to case) existed, was active and had that password; otherwise it
\* ends rejected and issues no token.
C5_LoginIffCredentials ==
  /\ (LoginDone /\ isEmail(last.email) /\ isLongEnough(last.password)) =>
       /\ (last.status = 200 /\ last.token # NoTok) <=> last.expected
       /\ last.status = 200 => last.token \in Tokens /\ last.token.id = last.snapId
       /\ ~last.expected => last.status = 401 /\ last.token = NoTok
  /\ req.pc = "login_save" => req.expected

C5_Witness ==
  /\ LoginDone /\ last.status = 200 /\ last.token \in Tokens
  /\ last.email # emailSetter(last.email)

\* C6: every rejected login gets the same response, whichever of the three
\* predicates (email known, principal active, password right) failed.
C6_UniformRejection ==
  (LoginDone /\ last.status = 401) => last.message = "Invalid credentials"

\* The step answered a login.
LoginAnswered == last'.pc = "done" /\ last'.route.name = "login"

ChangedFields(id) == {f \in DOMAIN admins[id] : admins'[id][f] # admins[id][f]}

\* C7 as claimed: a successful login changes lastLogin of its principal and
\* no other stored field; a rejected login changes nothing.
C7_OnlyLastLoginChanges ==
  [][LoginAnswered =>
       IF last'.status = 200
         THEN /\ admins'[last'.snapId].lastLogin = now
              /\ ChangedFields(last'.snapId) \subseteq {"lastLogin"}
              /\ \A id \in AdminIds \ {last'.snapId} : ChangedFields(id) = {}
         ELSE admins' = admins]_vars

\* C7, amended: a successful login changes lastLogin and the updatedAt
\* timestamp of its principal and no other stored field of any principal; a
\* rejected login changes nothing.
C7_OnlyLastLoginAndUpdatedAtChange ==
  [][LoginAnswered =>
       IF last'.status = 200
         THEN /\ admins'[last'.snapId].lastLogin = now
              /\ admins'[last'.snapId].updatedAt = now
              /\ ChangedFields(last'.snapId) \subseteq {"lastLogin", "updatedAt"}
              /\ \A id \in AdminIds \ {last'.snapId} : ChangedFields(id) = {}
         ELSE admins' = admins]_vars

C7_Witness ==
  /\ LoginDone /\ last.status = 200
  /\ admins[last.snapId].lastLogin = now
  /\ admins[last.snapId].updatedAt = now
  /\ now > 0

\* C8: a token issued for an id at time t verifies to that id at every time
\* before t + JWT_EXPIRE, and at every time after it fails as expired, never
\* as malformed; the gate answers accordingly.
C8_ValidUntilExpiry ==
  /\ \A e \in issued :
       LET v == jwtVerify(Bearer(e.tok), now)
       IN  /\ now < e.at + JWT_EXPIRE => v.error = "none" /\ v.id = e.to
           /\ now >= e.at + JWT_EXPIRE => v.error = "TokenExpiredError"
  /\ (Guarded /\ last.hdr.kind = "jwt") =>
       /\ last.lived = "after" =>
            last.status = 401 /\ last.message = "Token has expired" /\ ~last.ran
       /\ last.lived = "before" =>
            last.message \notin {"Token has expired", "Invalid token"}

C8_Witness ==
  /\ Guarded /\ last.hdr.kind = "jwt" /\ last.lived = "after"
  /\ last.message = "Token has expired"
  /\ \E e \in issued : e.tok = last.hdr.tok /\ e.to \in AdminIds

\* The step answered a request that issued a token through POST /refresh.
RefreshAnswered ==
  last'.pc = "done" /\ last'.route.name = "refresh" /\ last'.token # NoTok

LogoutAnswered ==
  last'.pc = "done" /\ last'.route.name = "logout" /\ last'.status = 200

\* C10: logout changes no server-side state, and a later protected request
\* with the logged-out token still passes the gate while the token is
\* unexpired and its principal is stored and active.
C10_LogoutRevokesNothing ==
  /\ []((Guarded /\ last.afterLogout /\ last.lived = "before"
           /\ last.loaded = "active" /\ LayerSatisfied(last.route, admins[Principal]))
          => last.ran /\ last.by = "handler")
  /\ [][LogoutAnswered => admins' = admins /\ issued' = issued]_vars

C10_Witness ==
  /\ Guarded /\ last.afterLogout /\ last.ran /\ last.status = 200
  /\ last.route.name # "logout"

\* ===================================================== resource requests
\* The requests to the resource routes are followed on lanes: a lane serves
\* one request from its arrival to its response, and the lanes interleave
\* at every await of their handlers.
Lanes == {1, 2}

IdleCall == [pc |-> "idle", op |-> "none", out |-> <<>>]

NoCalls == [l \in Lanes |-> IdleCall]

\* res.status(...).json(...): one more response is written for the request.
Send(c, resp) == [c EXCEPT !.pc = "done", !.out = Append(@, resp)]

\* The call on lane l becomes c; the other lanes stay as they are.
Lane(l, c) == calls' = [calls EXCEPT ![l] = c]

Done(l) == calls[l].pc = "done"

\* The response of a finished call.
Reply(l) == calls[l].out[Len(calls[l].out)]

\* The elements of a list.
Range(seq) == {seq[i] : i \in 1 .. Len(seq)}

\* ------------------------------------------- POST /api/applications (apply)
JobIds == {"j1", "j2"}
ApplicantIds == {"u1", "u2"}

\* Two open jobs: the application deadline of j1 is the instant 1, and j2
\* has none (the path is not required by the schema).
SeedJobs ==
  [j \in JobIds |->
     [isActive |-> TRUE,
      applicationDeadline |-> IF j = "j1" THEN <<1>> ELSE <<>>,
      company |-> "c1", applications |-> {}]]

\* What a job is to an applicant at the instant t.
jobState(jobs, j, t) ==
  IF j \notin DOMAIN jobs THEN "missing"
  ELSE IF ~jobs[j].isActive THEN "inactive"
  ELSE IF jobs[j].applicationDeadline # <<>> /\ t > jobs[j].applicationDeadline[1]
    THEN "late"
  ELSE "open"

\* The three checks of the apply handler on the job it loaded, without the
\* one on the deadline.
jobCheckNoDeadline(jobs, j, t) ==
  IF j \notin DOMAIN jobs THEN Response(404, "Job not found")
  ELSE IF ~jobs[j].isActive
    THEN Response(400, "This job is no longer accepting applications")
  ELSE PassOn

\* The three checks of the apply handler on the job it loaded:
\* !job, !job.isActive, new Date() > job.applicationDeadline (false when
\* the job has no deadline).
jobCheck(jobs, j, t) ==
  IF j \notin DOMAIN jobs THEN Response(404, "Job not found")
  ELSE IF ~jobs[j].isActive
    THEN Response(400, "This job is no longer accepting applications")
  ELSE IF jobs[j].applicationDeadline # <<>> /\ t > jobs[j].applicationDeadline[1]
    THEN Response(400, "Application deadline has passed")
  ELSE PassOn

\* The unique index {job: 1, applicant: 1} of the applications collection:
\* TRUE when an insert of the pair is refused with a duplicate key error.
uniqueIndexOff(applications, job, applicant) == FALSE

uniqueIndexRefuses(applications, job, applicant) ==
  \E i \in 1 .. Len(applications) :
    applications[i].job = job /\ applications[i].applicant = applicant

\* Application.findOne({job, applicant}): whether a document was found.
findApplication(applications, job, applicant) ==
  \E i \in 1 .. Len(applications) :
    applications[i].job = job /\ applications[i].applicant = applicant

\* The catch block of the apply handler.
applyCatch == Response(500, "Server error")

ApplyCall(job, applicant) ==
  [pc |-> "find_job", op |-> "apply", out |-> <<>>,
   job |-> job, applicant |-> applicant, loaded |-> "none", created |-> 0,
   \* what the request met, recorded for the properties below
   existed |-> FALSE, open |-> FALSE, lost |-> FALSE, met |-> "none"]

InitApply ==
  /\ admins = SeedAdmins
  /\ now = 0
  /\ ticks = 0
  /\ issued = {}
  /\ loggedOut = NoTok
  /\ req = IdleReq
  /\ last = IdleReq
  /\ db = [applications |-> <<>>, jobs |-> SeedJobs]
  /\ calls = NoCalls

\* The request arrives with a body the validators accept or refuse.
ApplyStart(l, job, applicant, valid) ==
  /\ calls[l].pc = "idle"
  /\ LET c == [ApplyCall(job, applicant) EXCEPT
                 !.existed = findApplication(db.applications, job, applicant)]
     IN  IF valid THEN Lane(l, c)
         ELSE Lane(l, Send(c, Response(400, "Validation errors")))
  /\ UNCHANGED <<vars, db>>

\* Job.findById resolved: the three checks on the job.
ApplyFindJob(l) ==
  /\ calls[l].pc = "find_job"
  /\ LET c == [calls[l] EXCEPT !.met = jobState(db.jobs, calls[l].job, now)]
         check == jobCheck(db.jobs, c.job, now)
     IN  IF ~check.pass
           THEN Lane(l, Send(c, check))
           ELSE Lane(l, [c EXCEPT !.pc = "find_existing", !.open = TRUE,
                                  !.loaded = db.jobs[c.job]])
  /\ UNCHANGED <<vars, db>>

\* Application.findOne resolved.
ApplyFindExisting(l) ==
  /\ calls[l].pc = "find_existing"
  /\ LET c == calls[l]
     IN  IF findApplication(db.applications, c.job, c.applicant)
           THEN Lane(l, Send(c, Response(400,
                  "You have already applied for this job")))
         ELSE Lane(l, [c EXCEPT !.pc = "create"])
  /\ UNCHANGED <<vars, db>>

\* Application.create settled: the insert went in, or the unique index
\* refused it and the rejection reached the handler's catch block.
ApplyCreate(l) ==
  /\ calls[l].pc = "create"
  /\ LET c == calls[l]
     IN  IF uniqueIndexRefuses(db.applications, c.job, c.applicant)
           THEN /\ Lane(l, Send([c EXCEPT !.lost = TRUE], applyCatch))
                /\ UNCHANGED db
         ELSE /\ db' = [db EXCEPT !.applications =
                          Append(@, [job |-> c.job, applicant |-> c.applicant,
                                     company |-> c.loaded.company])]
              /\ Lane(l, [c EXCEPT !.pc = "save_job",
                                   !.created = Len(db.applications) + 1])
  /\ UNCHANGED vars

\* job.applications.push, job.save(), the populated read and the 201; the
\* save of a job that was deleted in the meantime rejects.
ApplySaveJob(l) ==
  /\ calls[l].pc = "save_job"
  /\ LET c == calls[l]
     IN  IF c.job \notin DOMAIN db.jobs
           THEN /\ Lane(l, Send(c, applyCatch))
                /\ UNCHANGED db
         ELSE /\ db' = [db EXCEPT !.jobs[c.job].applications = @ \cup {c.created}]
              /\ Lane(l, Send(c, Response(201, "Application submitted successfully")))
  /\ UNCHANGED vars

\* PUT /api/jobs/:id with {isActive: false}: one findByIdAndUpdate.
UpdateJobInactive(j) ==
  /\ j \in DOMAIN db.jobs
  /\ db.jobs[j].isActive
  /\ db' = [db EXCEPT !.jobs[j].isActive = FALSE]
  /\ UNCHANGED <<vars, calls>>

\* DELETE /api/jobs/:id: the job goes, its applications stay.
DeleteJob(j) ==
  /\ j \in DOMAIN db.jobs
  /\ db' = [db EXCEPT !.jobs = [k \in DOMAIN db.jobs \ {j} |-> db.jobs[k]]]
  /\ UNCHANGED <<vars, calls>>

NextApply ==
  \/ \E l \in Lanes, job \in JobIds, applicant \in ApplicantIds, valid \in BOOLEAN :
       ApplyStart(l, job, applicant, valid)
  \/ \E l \in Lanes : ApplyFindJob(l)
  \/ \E l \in Lanes : ApplyFindExisting(l)
  \/ \E l \in Lanes : ApplyCreate(l)
  \/ \E l \in Lanes : ApplySaveJob(l)
  \/ \E j \in JobIds : UpdateJobInactive(j)
  \/ \E j \in JobIds : DeleteJob(j)
  \/ Tick

SpecApply == InitApply /\ [][NextApply]_allVars

\* ---------------------------------------------------- claims on applications
ApplyDone(l) == Done(l) /\ calls[l].op = "apply"

AlreadyApplied == Response(400, "You have already applied for this job")

\* No two documents of the collection carry the same (job, applicant) pair.
OnePerPair ==
  \A i, k \in 1 .. Len(db.applications) :
    (/\ db.applications[i].job = db.applications[k].job
     /\ db.applications[i].applicant = db.applications[k].applicant) => i = k

\* C11 as stated: there is at most one Application per (job, applicant)
\* pair, and every apply request that arrives when an application for its
\* pair exists is answered with the already-applied error (400).
C11_OnePerPairAndConflict ==
  /\ OnePerPair
  /\ \A l \in Lanes :
       (ApplyDone(l) /\ calls[l].existed) => Reply(l) = AlreadyApplied

\* C11 amended: there is at most one Application per (job, applicant) pair;
\* an apply request that arrives when an application for its pair exists is
\* never answered 201 and inserts nothing, and it is answered with the
\* already-applied error (400) when its body is valid and the job it names
\* still exists, is active and is before its deadline when the handler loads
\* it; otherwise the validation error (400) or the job check's 404 or 400
\* comes first.
C11_OnePerPairAndRejected ==
  /\ OnePerPair
  /\ \A l \in Lanes :
       (ApplyDone(l) /\ calls[l].existed) =>
          /\ calls[l].created = 0
          /\ Reply(l) \in
               {AlreadyApplied,
                Response(400, "Validation errors"),
                Response(404, "Job not found"),
                Response(400, "This job is no longer accepting applications"),
                Response(400, "Application deadline has passed")}
          /\ calls[l].open => Reply(l) = AlreadyApplied

\* A second request for a pair that already has its application was turned
\* away as already applied, and the collection holds that one application.
C11_Witness ==
  \E l \in Lanes :
    /\ ApplyDone(l) /\ calls[l].existed /\ calls[l].open
    /\ Reply(l) = AlreadyApplied
    /\ Len(db.applications) = 1

\* C12 as stated: when two apply requests for one pair both pass the
\* existing-application lookup before either inserts, the one that loses at
\* the unique index is answered with the already-applied error (400).
C12_LoserAnsweredAlreadyApplied ==
  \A l \in Lanes :
    (ApplyDone(l) /\ calls[l].lost) => Reply(l) = AlreadyApplied

\* C23: an application is created, and entered in a job's applications
\* list, only by a request that found its job existing, active and not past
\* its deadline; a request that found the job missing is answered 404, one
\* that found it inactive or past its deadline is answered 400, and such a
\* request creates no application.
C23_OnlyOpenJobsApplied ==
  /\ \A l \in Lanes :
       calls[l].op = "apply" =>
         /\ calls[l].created # 0 => calls[l].met = "open"
         /\ (Done(l) /\ calls[l].met = "missing") =>
              Reply(l).status = 404 /\ calls[l].created = 0
         /\ (Done(l) /\ calls[l].met \in {"inactive", "late"}) =>
              Reply(l).status = 400 /\ calls[l].created = 0
  /\ \A i \in 1 .. Len(db.applications) :
       \E l \in Lanes :
         /\ calls[l].op = "apply" /\ calls[l].created = i
         /\ calls[l].met = "open" /\ calls[l].job = db.applications[i].job
  /\ \A j \in DOMAIN db.jobs : \A i \in db.jobs[j].applications :
       \E l \in Lanes :
         /\ calls[l].op = "apply" /\ calls[l].created = i
         /\ calls[l].met = "open" /\ calls[l].job = j

\* One request was turned away because the deadline of its job had passed,
\* and another one's application went in and is on the list of its job.
C23_Witness ==
  \E l, k \in Lanes :
    /\ ApplyDone(l) /\ calls[l].met = "late"
    /\ Reply(l) = Response(400, "Application deadline has passed")
    /\ ApplyDone(k) /\ calls[k].created # 0
    /\ calls[k].job \in DOMAIN db.jobs
    /\ calls[k].created \in db.jobs[calls[k].job].applications

\* ================================================ PUT /bulk/update (admin)
\* The bulk-update handlers of the admin backend share one body; they
\* differ in the collection and in the allow-list.
BulkResources ==
  {"jobs", "users", "companies", "categories", "applications", "content", "faqs"}

allowedFields(resource) ==
  CASE resource = "jobs" -> {"status", "isActive", "isFeatured", "isRemote"}
    [] resource = "users" -> {"isActive", "isVerified", "role", "status"}
    [] resource = "companies" -> {"status", "isActive", "isVerified", "isFeatured"}
    [] resource = "categories" -> {"isActive", "isFeatured", "sortOrder"}
    [] resource = "applications" -> {"status", "notes"}
    [] resource = "content" ->
         {"status", "isActive", "isFeatured", "isPublic", "sortOrder"}
    [] resource = "faqs" -> {"isActive", "isFeatured", "sortOrder", "category"}

\* The keys a request may carry in its updates object.
UpdateKeys == {"isActive", "role", "notAllowedField"}

\* Object.keys(updates): the keys in insertion order, each once.
KeyLists ==
  {ks \in UNION {[1 .. n -> UpdateKeys] : n \in 0 .. MaxKeys} :
     \A i, k \in 1 .. Len(ks) : ks[i] = ks[k] => i = k}

\* Array.prototype.filter keeps the order of the elements it keeps.
RECURSIVE filterSeq(_, _)
filterSeq(ks, keep) ==
  IF ks = <<>> THEN <<>>
  ELSE IF Head(ks) \in keep THEN <<Head(ks)>> \o filterSeq(Tail(ks), keep)
  ELSE filterSeq(Tail(ks), keep)

\* Object.keys(updates).filter(field => !allowedFields.includes(field))
invalidFields(resource, keys) ==
  filterSeq(keys, UpdateKeys \ allowedFields(resource))

\* message: `Invalid fields: ${invalidFields.join(', ')}`
InvalidFieldsResponse(fields) ==
  [pass |-> FALSE, status |-> 400, message |-> "Invalid fields", fields |-> fields]

\* The stored documents of a collection and an id that matches none.
DocIds == {"d1", "d2"}
MissingDocId == "d9"

\* The ids arrays of the requests: not an array with an element, one stored
\* id, every stored id and an id that matches nothing.
IdLists == {{}, {"d1"}, DocIds \cup {MissingDocId}}

\* The paths of the schemas among the keys above.
schemaPaths(resource) ==
  IF resource = "users" THEN {"isActive", "role"} ELSE {"isActive"}

SeedDocs(resource) ==
  [d \in DocIds |-> [f \in schemaPaths(resource) |-> "old"]]

\* Model.updateMany({_id: {$in: ids}}, {$set: updates}) under a strict schema.
updateMany(docs, resource, ids, keys) ==
  [d \in DOMAIN docs |->
     IF d \in ids
       THEN [f \in DOMAIN docs[d] |->
               IF \E i \in 1 .. Len(keys) : keys[i] = f THEN "new" ELSE docs[d][f]]
       ELSE docs[d]]

BulkCall(resource, ids, keys) ==
  [pc |-> "update_many", op |-> "bulk", out |-> <<>>,
   resource |-> resource, ids |-> ids, keys |-> keys, wrote |-> FALSE]

InitBulk ==
  /\ admins = SeedAdmins
  /\ now = 0
  /\ ticks = 0
  /\ issued = {}
  /\ loggedOut = NoTok
  /\ req = IdleReq
  /\ last = IdleReq
  /\ db = [r \in BulkResources |-> SeedDocs(r)]
  /\ calls = NoCalls

\* The request arrives: the validators on ids and updates, then the
\* allow-list, all before the first await.
BulkStart(l, resource, ids, keys) ==
  /\ calls[l].pc = "idle"
  /\ LET c == BulkCall(resource, ids, keys)
         bad == invalidFields(resource, keys)
     IN  IF ids = {}
           THEN Lane(l, Send(c, Response(400, "Validation errors")))
         ELSE IF Len(bad) > 0
           THEN Lane(l, Send(c, InvalidFieldsResponse(bad)))
         ELSE Lane(l, c)
  /\ UNCHANGED <<vars, db>>

\* updateMany resolved: the documents are written and the counts reported.
BulkUpdateMany(l) ==
  /\ calls[l].pc = "update_many"
  /\ LET c == calls[l]
     IN  /\ db' = [db EXCEPT ![c.resource] = updateMany(@, c.resource, c.ids, c.keys)]
         /\ Lane(l, Send([c EXCEPT !.wrote = TRUE], Response(200, "Updated")))
  /\ UNCHANGED vars

NextBulk ==
  \/ \E l \in Lanes, resource \in BulkResources, ids \in IdLists, keys \in KeyLists :
       BulkStart(l, resource, ids, keys)
  \/ \E l \in Lanes : BulkUpdateMany(l)

SpecBulk == InitBulk /\ [][NextBulk]_allVars

\* ---------------------------------------------------- claims on bulk update
BulkDone(l) == Done(l) /\ calls[l].op = "bulk"

\* The keys of the request that are outside the allow-list of its resource.
Offending(c) == Range(c.keys) \ allowedFields(c.resource)

NamesEveryOffending(l) ==
  /\ Reply(l).status = 400
  /\ Reply(l).message = "Invalid fields"
  /\ Range(Reply(l).fields) = Offending(calls[l])

\* C13 as stated: every bulk-update request whose updates object has a key
\* outside the allow-list is answered 400 with a message naming every such
\* key, and writes no document.
C13_OffendingFieldsNamed ==
  \A l \in Lanes :
    (BulkDone(l) /\ Offending(calls[l]) # {}) =>
       NamesEveryOffending(l) /\ ~calls[l].wrote

\* ======================================================= paginated lists
\* Three of the list handlers: GET /api/admin/jobs of the admin backend
\* (validators on page, limit and sortBy), GET /api/admin/users of the job
\* portal backend (validators on page and limit up to 50, no sort parameter)
\* and GET /api/categories/:category of the job portal backend (no
\* validators).
ListEndpoints == {"adminJobs", "portalUsers", "categoryJobs"}

\* A query parameter is absent, or present with one value.
Absent == <<>>
Given(v) == <<v>>

\* The values of the page and limit query parameters: absent, or the decimal
\* digits of an integer, which parseInt reads back.
PageInputs == {Absent} \cup {Given(n) : n \in 0 .. MaxPage}
LimitInputs == {Absent} \cup {Given(n) : n \in (0 .. MaxLimit) \cup {50, 51, 100, 101}}
SortInputs == {Absent, Given("createdAt"), Given("title"), Given("password")}

sortAllowList(endpoint) ==
  IF endpoint = "adminJobs"
    THEN {"createdAt", "title", "company", "location", "status"}
    ELSE {}

\* const { page = 1, limit = 10 } = req.query, then parseInt
pageOf(page) == IF page = Absent THEN 1 ELSE page[1]
limitOf(limit) == IF limit = Absent THEN 10 ELSE limit[1]

\* The express-validator chains of the endpoint; TRUE when they pass.
listValidators(endpoint, page, limit, sortBy) ==
  CASE endpoint = "adminJobs" ->
         /\ page = Absent \/ page[1] >= 1
         /\ limit = Absent \/ (limit[1] >= 1 /\ limit[1] <= 100)
         /\ sortBy = Absent \/ sortBy[1] \in sortAllowList(endpoint)
    [] endpoint = "portalUsers" ->
         /\ page = Absent \/ page[1] >= 1
         /\ limit = Absent \/ (limit[1] >= 1 /\ limit[1] <= 50)
    [] endpoint = "categoryJobs" -> TRUE

\* The documents matching the filter, in sort order.
Matching(n) == [i \in 1 .. n |-> i]

\* const skip = (parseInt(page) - 1) * parseInt(limit)
skipOf(page, limit) == (pageOf(page) - 1) * limitOf(limit)

\* Query.skip(skip).limit(limit) on the matching documents; limit(0) is no
\* limit.
skipLimit(docs, skip, limit) ==
  LET upto == IF limit = 0 \/ skip + limit > Len(docs) THEN Len(docs)
              ELSE skip + limit
  IN  SubSeq(docs, skip + 1, upto)

\* Math.ceil(total / limit); the division by zero gives Infinity or NaN,
\* which JSON.stringify writes as null.
ceilDivFloor(total, limit) ==
  IF limit = 0 THEN "null" ELSE total \div limit

ceilDiv(total, limit) ==
  IF limit = 0 THEN "null" ELSE (total + limit - 1) \div limit

ListCall(endpoint, page, limit, sortBy) ==
  [pc |-> "find", op |-> "list", out |-> <<>>,
   endpoint |-> endpoint, page |-> page, limit |-> limit, sortBy |-> sortBy,
   found |-> <<>>, queried |-> FALSE,
   \* what the request met, recorded for the properties below
   size |-> 0, changed |-> FALSE]

ListResponse(items, totalPages, total) ==
  [pass |-> FALSE, status |-> 200, message |-> "", items |-> items,
   totalPages |-> totalPages, total |-> total]

\* Only the first lane carries a list request; the writes to the collection
\* are single operations of other requests.
ListLanes == {1}

InitList ==
  /\ admins = SeedAdmins
  /\ now = 0
  /\ ticks = 0
  /\ issued = {}
  /\ loggedOut = NoTok
  /\ req = IdleReq
  /\ last = IdleReq
  /\ db \in {[docs |-> Matching(n)] : n \in 0 .. MaxDocs}
  /\ calls = NoCalls

\* The request arrives: the validators, then the handler up to its queries.
ListStart(l, endpoint, page, limit, sortBy) ==
  /\ calls[l].pc = "idle"
  /\ LET c == [ListCall(endpoint, page, limit, sortBy) EXCEPT
                 !.size = Len(db.docs)]
     IN  IF listValidators(endpoint, page, limit, sortBy) THEN Lane(l, c)
         ELSE Lane(l, Send(c, Response(400, "Validation errors")))
  /\ UNCHANGED <<vars, db>>

\* Model.find(filter).sort(sort).skip(skip).limit(limit) settled; a negative
\* skip is refused by the database and the handler's catch block answers.
ListFind(l) ==
  /\ calls[l].pc = "find"
  /\ LET c == [calls[l] EXCEPT !.queried = TRUE]
         skip == skipOf(c.page, c.limit)
     IN  IF skip < 0 THEN Lane(l, Send(c, Response(500, "Server error")))
         ELSE Lane(l, [c EXCEPT !.pc = "count",
                         !.found = skipLimit(db.docs, skip, limitOf(c.limit))])
  /\ UNCHANGED <<vars, db>>

\* Model.countDocuments(filter) settled, and the response is written.
ListCount(l) ==
  /\ calls[l].pc = "count"
  /\ LET c == calls[l]
         total == Len(db.docs)
     IN  Lane(l, Send(c, ListResponse(c.found,
                                      ceilDiv(total, limitOf(c.limit)), total)))
  /\ UNCHANGED <<vars, db>>

\* A list request in flight notes that the collection changed under it.
NoteChange ==
  calls' = [l \in Lanes |->
              IF calls[l].pc \in {"find", "count"}
                THEN [calls[l] EXCEPT !.changed = TRUE] ELSE calls[l]]

\* Another request inserts a matching document, or deletes the last one.
InsertDoc ==
  /\ Len(db.docs) < MaxDocs
  /\ db' = [db EXCEPT !.docs = Matching(Len(@) + 1)]
  /\ NoteChange
  /\ UNCHANGED vars

DeleteDoc ==
  /\ Len(db.docs) > 0
  /\ db' = [db EXCEPT !.docs = Matching(Len(@) - 1)]
  /\ NoteChange
  /\ UNCHANGED vars

NextList ==
  \/ \E l \in ListLanes, endpoint \in ListEndpoints, page \in PageInputs,
        limit \in LimitInputs, sortBy \in SortInputs :
       ListStart(l, endpoint, page, limit, sortBy)
  \/ \E l \in ListLanes : ListFind(l)
  \/ \E l \in ListLanes : ListCount(l)
  \/ InsertDoc
  \/ DeleteDoc

SpecList == InitList /\ [][NextList]_allVars

\* ------------------------------------------------------- claims on lists
ListDone(l) == Done(l) /\ calls[l].op = "list"

Served(l) == Reply(l).status = 200

Min(a, b) == IF a < b THEN a ELSE b
Max(a, b) == IF a > b THEN a ELSE b

\* ceil(n / d) for d >= 1: the least k with k * d >= n.
Ceil(n, d) == CHOOSE k \in 0 .. n : k * d >= n /\ \A j \in 0 .. n : j * d >= n => k <= j

\* C14: a list request with page P >= 1 and limit L >= 1 over a filtered
\* collection of size N that did not change during the request is answered,
\* when it is served, with exactly min(L, max(0, N - L*(P-1))) items,
\* totalPages = ceil(N/L) and a total of N; it is served whenever L is at
\* most 50 and its sort field is absent or listed.
C14_PageArithmetic ==
  \A l \in ListLanes :
    LET c == calls[l]
        P == pageOf(c.page)
        L == limitOf(c.limit)
        N == c.size
    IN  (ListDone(l) /\ ~c.changed /\ P >= 1 /\ L >= 1) =>
          /\ (L <= 50 /\ c.sortBy \in {Absent, Given("createdAt"), Given("title")})
               => Served(l)
          /\ Served(l) =>
               /\ Len(Reply(l).items) = Min(L, Max(0, N - L * (P - 1)))
               /\ Reply(l).totalPages = Ceil(N, L)
               /\ Reply(l).total = N

\* The second page of two over three documents came back with one item.
C14_Witness ==
  \E l \in ListLanes :
    /\ ListDone(l) /\ ~calls[l].changed /\ Served(l)
    /\ calls[l].size = 3 /\ calls[l].page = Given(2) /\ calls[l].limit = Given(2)
    /\ Len(Reply(l).items) = 1
    /\ Reply(l).totalPages = 2
    /\ Reply(l).total = 3

\* What the specification asks of the three parameters.
ValidListQuery(c) ==
  /\ pageOf(c.page) >= 1
  /\ limitOf(c.limit) >= 1 /\ limitOf(c.limit) <= 100
  /\ c.sortBy = Absent \/ c.sortBy[1] \in sortAllowList(c.endpoint)

\* C15 as stated: a list request whose page is below 1, whose limit is
\* outside 1..100 or whose sortBy is not in the resource's allow-list is
\* answered 400 before any query is issued.
C15_InvalidQueryRejected ==
  \A l \in ListLanes :
    (ListDone(l) /\ ~ValidListQuery(calls[l])) =>
       Reply(l).status = 400 /\ ~calls[l].queried

\* ============================================================ statistics
\* The values of the group field of the documents of a collection; a
\* document without the field groups under null.
NullKey == "null"
GroupValues == {"IT", "HR", NullKey}

\* The collections a report is computed over.
StatCollections == UNION {[1 .. n -> GroupValues] : n \in 0 .. MaxDocs}

\* {$group: {_id: '$field', count: {$sum: 1}}}: the buckets, as a set.
groupBuckets(docs) ==
  {[key |-> v, count |-> Cardinality({i \in 1 .. Len(docs) : docs[i] = v})] :
     v \in Range(docs)}

\* {$sort: {count: 1}} and {$sort: {count: -1}} on a list of buckets.
sortedAscending(list) ==
  \A i, k \in 1 .. Len(list) : i < k => list[i].count <= list[k].count

sortedDescending(list) ==
  \A i, k \in 1 .. Len(list) : i < k => list[i].count >= list[k].count

\* Model.aggregate([{$group}, {$sort: {count: -1}}]): every list the
\* pipeline can return; buckets of equal count come in either order.
aggregateBy(docs) ==
  LET buckets == groupBuckets(docs)
      n == Cardinality(buckets)
  IN  {list \in [1 .. n -> buckets] :
         /\ \A i, k \in 1 .. n : list[i] = list[k] => i = k
         /\ sortedDescending(list)}

\* A query of a report: the field it fills, what it returns, and whether a
\* rejection of it is caught (.catch(() => 0), .catch(() => []), or the
\* try/catch of a model static).
Query(field, kind, caught) == [field |-> field, kind |-> kind, caught |-> caught]

\* GET /api/admin/dashboard/stats
dashboardQueries ==
  {Query(f, "count", TRUE) :
     f \in {"totalUsers", "totalJobs", "totalCompanies", "totalApplications",
            "totalCategories", "totalFAQs", "totalContent",
            "activeUsers", "activeJobs", "activeCompanies", "activeCategories",
            "activeFAQs", "publishedContent",
            "monthlyUsers", "monthlyJobs", "monthlyApplications",
            "monthlyCompanies"}}
  \cup {Query(f, "list", TRUE) :
          f \in {"recentUsers", "recentJobs", "recentApplications"}}
  \cup {Query(f, "groups", TRUE) :
          f \in {"jobCategories", "userRoles", "applicationStatus",
                 "companyIndustries", "faqCategories", "contentTypes"}}

\* GET /api/admin/jobs/stats/overview
jobsOverviewQueries ==
  {Query(f, "count", FALSE) :
     f \in {"totalJobs", "activeJobs", "inactiveJobs", "expiredJobs",
            "draftJobs", "featuredJobs"}}
  \cup {Query(f, "groups", TRUE) :
          f \in {"monthlyPostings", "jobCategories", "jobTypes",
                 "experienceLevels"}}

StatsEndpoints == {"dashboard", "jobsOverview"}

queriesOf(endpoint) ==
  IF endpoint = "dashboard" THEN dashboardQueries ELSE jobsOverviewQueries

NoFailure == "none"

\* What a query resolves to on the collection.
resolved(q, docs, groups) ==
  CASE q.kind = "count" -> Len(docs)
    [] q.kind = "list" -> docs
    [] q.kind = "groups" -> groups

\* What the catch of a query puts in its place.
fallback(q) == IF q.kind = "count" THEN 0 ELSE <<>>

StatsCall(endpoint, failing) ==
  [pc |-> "queries", op |-> "stats", out |-> <<>>,
   endpoint |-> endpoint, failing |-> failing]

StatsResponse(report) ==
  [pass |-> FALSE, status |-> 200, message |-> "", data |-> report]

InitStats ==
  /\ admins = SeedAdmins
  /\ now = 0
  /\ ticks = 0
  /\ issued = {}
  /\ loggedOut = NoTok
  /\ req = IdleReq
  /\ last = IdleReq
  /\ db \in {[docs |-> docs] : docs \in StatCollections}
  /\ calls = NoCalls

\* The request arrives; the database will reject one of its queries, or
\* none.
StatsStart(l, endpoint, failing) ==
  /\ calls[l].pc = "idle"
  /\ failing \in {q.field : q \in queriesOf(endpoint)} \cup {NoFailure}
  /\ Lane(l, StatsCall(endpoint, failing))
  /\ UNCHANGED <<vars, db>>

\* The queries settled: a caught rejection yields the fallback, an uncaught
\* one reaches the handler's catch block.
StatsAnswer(l, groups) ==
  /\ calls[l].pc = "queries"
  /\ groups \in aggregateBy(db.docs)
  /\ LET c == calls[l]
         qs == queriesOf(c.endpoint)
         report == [f \in {q.field : q \in qs} |->
                      LET q == CHOOSE q \in qs : q.field = f
                      IN  IF f = c.failing THEN fallback(q)
                          ELSE resolved(q, db.docs, groups)]
     IN  IF \E q \in qs : q.field = c.failing /\ ~q.caught
           THEN Lane(l, Send(c, Response(500, "Failed to fetch job statistics")))
         ELSE Lane(l, Send(c, StatsResponse(report)))
  /\ UNCHANGED <<vars, db>>

StatFields ==
  {q.field : q \in dashboardQueries \cup jobsOverviewQueries} \cup {NoFailure}

NextStats ==
  \/ \E l \in ListLanes, endpoint \in StatsEndpoints, failing \in StatFields :
       StatsStart(l, endpoint, failing)
  \/ \E l \in ListLanes, groups \in UNION {aggregateBy(docs) : docs \in StatCollections} :
       StatsAnswer(l, groups)

SpecStats == InitStats /\ [][NextStats]_allVars

\* -------------------------------------------------- claims on statistics
StatsDone(l) == Done(l) /\ calls[l].op = "stats"

\* The value a field of the report carries when its query succeeds.
NormalValue(q, value) ==
  CASE q.kind = "count" -> value = Len(db.docs)
    [] q.kind = "list" -> value = db.docs
    [] q.kind = "groups" -> value \in aggregateBy(db.docs)

\* C16 as stated: a statistics request one of whose queries fails is
\* answered 200 with that field at 0 (a count) or the empty list (a list or
\* grouping) and every other field at its normally computed value.
C16_FailedQueryDegradesItsField ==
  \A l \in ListLanes :
    (StatsDone(l) /\ calls[l].failing # NoFailure) =>
       /\ Reply(l).status = 200
       /\ \A q \in queriesOf(calls[l].endpoint) :
            IF q.field = calls[l].failing
              THEN Reply(l).data[q.field] = fallback(q)
              ELSE NormalValue(q, Reply(l).data[q.field])

RECURSIVE SumCounts(_)
SumCounts(list) ==
  IF list = <<>> THEN 0 ELSE Head(list).count + SumCounts(Tail(list))

\* C17: a count-by-field result has one entry per distinct value of the
\* group field among the documents (null included), each with the number of
\* documents carrying that value, the counts add up to the number of
\* documents, the entries come in non-increasing order of count, and over
\* no documents the result is the empty list.
C17_CountByField ==
  \A l \in ListLanes :
    (StatsDone(l) /\ Reply(l).status = 200) =>
       \A q \in queriesOf(calls[l].endpoint) :
         (q.kind = "groups" /\ q.field # calls[l].failing) =>
            LET list == Reply(l).data[q.field]
            IN  /\ {list[i].key : i \in 1 .. Len(list)} = Range(db.docs)
                /\ Len(list) = Cardinality(Range(db.docs))
                /\ \A i \in 1 .. Len(list) :
                     list[i].count =
                       Cardinality({k \in 1 .. Len(db.docs) : db.docs[k] = list[i].key})
                /\ SumCounts(list) = Len(db.docs)
                /\ \A i \in 1 .. Len(list) - 1 : list[i].count >= list[i + 1].count
                /\ db.docs = <<>> => list = <<>>

\* Over two documents of one category and one without the field, the report
\* lists the category with 2 before the null bucket with 1.
C17_Witness ==
  \E l \in ListLanes :
    /\ StatsDone(l) /\ Reply(l).status = 200
    /\ calls[l].endpoint = "jobsOverview" /\ calls[l].failing = NoFailure
    /\ Reply(l).data["jobCategories"] =
         <<[key |-> "IT", count |-> 2], [key |-> NullKey, count |-> 1]>>

\* ========================================== jobs, companies and categories
\* The admin routes that write Job, Company and Category documents.  Each
\* runs here in one step; the property below fails without any interleaving
\* of their awaits.
CompanyIds == {"c1", "c2"}
CategoryIds == {"g1", "g2"}

\* The job whose cached names are followed.
CatalogJobIds == {"j1"}

\* Names as the requests carry them, two of them equal up to case.
NameInputs == {<<"A">>, <<"a">>, <<"b">>}

\* A document that was deleted keeps its id: ObjectIds are not reused.
Named(name) == [name |-> name, deleted |-> FALSE]

Live(coll) == {id \in DOMAIN coll : ~coll[id].deleted}

\* Model.findOne({name: {$regex: new RegExp(`^${name}$`, 'i')}}): the ids
\* of the documents that match.
findByNameIgnoringCase(coll, name) ==
  {id \in Live(coll) : SameEmailIgnoringCase(coll[id].name, name)}

\* Model.findOne({name}): the ids of the documents with exactly this name.
findByName(coll, name) == {id \in Live(coll) : coll[id].name = name}

\* The collection with one more document, or one document replaced.
Put(coll, id, doc) ==
  [k \in DOMAIN coll \cup {id} |-> IF k = id THEN doc ELSE coll[k]]

\* No document yet.
NoDocs == <<>>

InitCatalog ==
  /\ admins = SeedAdmins
  /\ now = 0
  /\ ticks = 0
  /\ issued = {}
  /\ loggedOut = NoTok
  /\ req = IdleReq
  /\ last = IdleReq
  /\ db = [companies |-> NoDocs, categories |-> NoDocs, jobs |-> NoDocs]
  /\ calls = NoCalls

\* let doc = await Model.findOne(by name, ignoring case);
\* if (!doc) doc = await Model.create({name}): id is the document the
\* handler goes on with, found or new.
foundOrNew(coll, name, id) ==
  IF findByNameIgnoringCase(coll, name) # {}
    THEN id \in findByNameIgnoringCase(coll, name)
    ELSE id \notin DOMAIN coll

withNew(coll, name, id) ==
  IF id \in DOMAIN coll THEN coll ELSE Put(coll, id, Named(name))

\* POST /api/admin/jobs with the names of a company and a category.
CreateJob(j, company, category) ==
  /\ j \notin DOMAIN db.jobs
  /\ \E c \in CompanyIds, g \in CategoryIds :
       /\ foundOrNew(db.companies, company, c)
       /\ foundOrNew(db.categories, category, g)
       /\ LET cs == withNew(db.companies, company, c)
              gs == withNew(db.categories, category, g)
          IN  db' = [companies |-> cs, categories |-> gs,
                     jobs |-> Put(db.jobs, j,
                                [company |-> c, companyName |-> cs[c].name,
                                 category |-> g, categoryName |-> gs[g].name])]
  /\ UNCHANGED <<vars, calls>>

\* PUT /api/admin/jobs/:id with a company name in the body, and possibly a
\* companyName key, which the loop over the body's keys copies last.
UpdateJobCompany(j, company, companyName) ==
  /\ j \in DOMAIN db.jobs
  /\ \E c \in CompanyIds :
       /\ foundOrNew(db.companies, company, c)
       /\ LET cs == withNew(db.companies, company, c)
              cached == IF companyName = Absent THEN cs[c].name ELSE companyName[1]
          IN  db' = [db EXCEPT !.companies = cs,
                               !.jobs[j].company = c,
                               !.jobs[j].companyName = cached]
  /\ UNCHANGED <<vars, calls>>

\* PUT /api/admin/jobs/:id with a category name in the body.
UpdateJobCategory(j, category) ==
  /\ j \in DOMAIN db.jobs
  /\ \E g \in CategoryIds :
       /\ foundOrNew(db.categories, category, g)
       /\ LET gs == withNew(db.categories, category, g)
          IN  db' = [db EXCEPT !.categories = gs,
                               !.jobs[j].category = g,
                               !.jobs[j].categoryName = gs[g].name]
  /\ UNCHANGED <<vars, calls>>

\* POST /api/admin/companies: refused when a company has exactly this name.
CreateCompany(c, name) ==
  /\ c \notin DOMAIN db.companies
  /\ findByName(db.companies, name) = {}
  /\ db' = [db EXCEPT !.companies = Put(@, c, Named(name))]
  /\ UNCHANGED <<vars, calls>>

\* PUT /api/admin/companies/:id with a name: refused when another company
\* has exactly this name; otherwise company.name is set and saved.
UpdateCompany(c, name) ==
  /\ c \in Live(db.companies)
  /\ name # db.companies[c].name => findByName(db.companies, name) \ {c} = {}
  /\ db' = [db EXCEPT !.companies[c].name = name]
  /\ UNCHANGED <<vars, calls>>

\* DELETE /api/admin/companies/:id
DeleteCompany(c) ==
  /\ c \in Live(db.companies)
  /\ db' = [db EXCEPT !.companies[c].deleted = TRUE]
  /\ UNCHANGED <<vars, calls>>

\* POST /api/admin/categories: refused when a category has this name up to
\* case.
CreateCategory(g, name) ==
  /\ g \notin DOMAIN db.categories
  /\ findByNameIgnoringCase(db.categories, name) = {}
  /\ db' = [db EXCEPT !.categories = Put(@, g, Named(name))]
  /\ UNCHANGED <<vars, calls>>

\* PUT /api/admin/categories/:id with a name: refused when another category
\* has this name up to case.
UpdateCategory(g, name) ==
  /\ g \in Live(db.categories)
  /\ name # db.categories[g].name =>
       findByNameIgnoringCase(db.categories, name) \ {g} = {}
  /\ db' = [db EXCEPT !.categories[g].name = name]
  /\ UNCHANGED <<vars, calls>>

\* DELETE /api/admin/categories/:id: refused on a positive jobCount, a
\* field that the job routes leave at its default of 0.
DeleteCategory(g) ==
  /\ g \in Live(db.categories)
  /\ db' = [db EXCEPT !.categories[g].deleted = TRUE]
  /\ UNCHANGED <<vars, calls>>

NextCatalog ==
  \/ \E j \in CatalogJobIds, company \in NameInputs, category \in NameInputs :
       CreateJob(j, company, category)
  \/ \E j \in CatalogJobIds, company \in NameInputs,
        companyName \in {Absent} \cup {Given(n) : n \in NameInputs} :
       UpdateJobCompany(j, company, companyName)
  \/ \E j \in CatalogJobIds, category \in NameInputs : UpdateJobCategory(j, category)
  \/ \E c \in CompanyIds, name \in NameInputs : CreateCompany(c, name)
  \/ \E c \in CompanyIds, name \in NameInputs : UpdateCompany(c, name)
  \/ \E c \in CompanyIds : DeleteCompany(c)
  \/ \E g \in CategoryIds, name \in NameInputs : CreateCategory(g, name)
  \/ \E g \in CategoryIds, name \in NameInputs : UpdateCategory(g, name)
  \/ \E g \in CategoryIds : DeleteCategory(g)

SpecCatalog == InitCatalog /\ [][NextCatalog]_allVars

\* ----------------------------------------------- claims on the cached names
\* C18 as stated: in every state reachable through the admin routes each
\* job's companyName is the current name of the company it references and
\* its categoryName the current name of the category it references.
C18_CachedNamesTrackReferences ==
  \A j \in DOMAIN db.jobs :
    /\ db.jobs[j].company \in Live(db.companies)
    /\ db.jobs[j].companyName = db.companies[db.jobs[j].company].name
    /\ db.jobs[j].category \in Live(db.categories)
    /\ db.jobs[j].categoryName = db.categories[db.jobs[j].category].name

\* C28 as stated: in every reachable state no two Company documents have
\* names that are equal up to letter case.
C28_CompanyNamesDistinctIgnoringCase ==
  \A c, d \in Live(db.companies) :
    SameEmailIgnoringCase(db.companies[c].name, db.companies[d].name) => c = d

\* ====================================== request pipeline (admin backend)
\* The middleware stack of the admin server around a route handler: the
\* JSON body parser with its verify callback, the router, the 404 handler
\* and the global error handler.
Bodies == {"none", "json", "not json"}
Paths == {"route", "unknown"}

NoError == [message |-> "", status |-> 0]

PipeCall(body, path, fault) ==
  [pc |-> "body_parser", op |-> "request", out |-> <<>>,
   body |-> body, path |-> path, fault |-> fault,
   error |-> NoError, jsonCalls |-> 0, escaped |-> FALSE]

\* res.status(...).json(...): the response is written unless one was written
\* before; then the call throws ERR_HTTP_HEADERS_SENT and writes nothing.
resJson(c, resp) ==
  IF c.out = <<>> THEN [c EXCEPT !.out = <<resp>>, !.jsonCalls = @ + 1]
  ELSE [c EXCEPT !.jsonCalls = @ + 1]

\* The verify callback of express.json: JSON.parse(buf); on failure it
\* answers 400 and throws, and the body parser passes the error on as a 403.
verify(c) ==
  IF c.body = "not json"
    THEN [resJson(c, Response(400, "Invalid JSON payload")) EXCEPT
            !.pc = "error_handler",
            !.error = [message |-> "Invalid JSON", status |-> 403]]
    ELSE [c EXCEPT !.pc = "router"]

\* The global error handler for an error that is neither a CORS, a
\* SyntaxError nor a JWT error: res.status(error.status || 500).json(...).
\* When that call throws, the error leaves the application and the
\* framework's final handler closes the connection.
globalErrorHandler(c) ==
  LET status == IF c.error.status = 0 THEN 500 ELSE c.error.status
      d == resJson(c, Response(status, c.error.message))
  IN  [d EXCEPT !.pc = "done", !.escaped = (d.out = c.out)]

InitPipe ==
  /\ admins = SeedAdmins
  /\ now = 0
  /\ ticks = 0
  /\ issued = {}
  /\ loggedOut = NoTok
  /\ req = IdleReq
  /\ last = IdleReq
  /\ db = <<>>
  /\ calls = NoCalls

\* A request arrives with or without a body, for a mounted route or not;
\* fault says whether a database call of its handler will reject.
PipeArrive(l, body, path, fault) ==
  /\ calls[l].pc = "idle"
  /\ Lane(l, PipeCall(body, path, fault))
  /\ UNCHANGED <<vars, db>>

\* express.json read the body.
PipeBodyParser(l) ==
  /\ calls[l].pc = "body_parser"
  /\ Lane(l, IF calls[l].body = "none" THEN [calls[l] EXCEPT !.pc = "router"]
             ELSE verify(calls[l]))
  /\ UNCHANGED <<vars, db>>

\* The router: a route handler, whose try/catch answers 500 when a call of
\* it throws, or the 404 handler.
PipeRouter(l) ==
  /\ calls[l].pc = "router"
  /\ LET c == calls[l]
         resp == IF c.path = "unknown" THEN Response(404, "Route not found")
                 ELSE IF c.fault THEN Response(500, "Failed")
                 ELSE Response(200, "OK")
     IN  Lane(l, [resJson(c, resp) EXCEPT !.pc = "done"])
  /\ UNCHANGED <<vars, db>>

PipeErrorHandler(l) ==
  /\ calls[l].pc = "error_handler"
  /\ Lane(l, globalErrorHandler(calls[l]))
  /\ UNCHANGED <<vars, db>>

NextPipe ==
  \/ \E l \in Lanes, body \in Bodies, path \in Paths, fault \in BOOLEAN :
       PipeArrive(l, body, path, fault)
  \/ \E l \in Lanes : PipeBodyParser(l)
  \/ \E l \in Lanes : PipeRouter(l)
  \/ \E l \in Lanes : PipeErrorHandler(l)

SpecPipe == InitPipe /\ [][NextPipe]_allVars

\* ------------------------------------------------- claims on the pipeline
PipeDone(l) == Done(l) /\ calls[l].op = "request"

\* C19 as stated: every request to the admin backend gets exactly one
\* response: its handlers call res.json once, the response is written, and
\* no error leaves the application's handlers.
C19_ExactlyOneResponse ==
  \A l \in Lanes :
    PipeDone(l) =>
      /\ Len(calls[l].out) = 1
      /\ calls[l].jsonCalls = 1
      /\ ~calls[l].escaped

\* ===================================================== unique-key writes
\* Three writes under a unique index: POST /api/admin/users (email), POST
\* /api/admin/categories (name and slug) and PUT /api/admin/auth/profile
\* (the admin's email).
UniqueOps == {"createUser", "createCategory", "updateProfile"}

UserEmails == {<<"a", "@", "x">>, <<"A", "@", "x">>, <<"b", "@", "x">>}

\* The unique key a request of each kind carries.
keysOf(op) == IF op = "createCategory" THEN NameInputs ELSE UserEmails

\* categorySchema.pre('save'): a category without a slug gets the lowercased
\* name; the slug path is lowercased by its setter.
slugOf(name) == emailSetter(name)

\* The document a request would store.
docOf(op, key) ==
  IF op = "createCategory" THEN [name |-> key, slug |-> slugOf(key)]
  ELSE [email |-> emailSetter(key)]

\* The unique indexes: TRUE when the collection, leaving out the document at
\* position self (0 for an insert), holds a document with the same unique
\* key as doc.
indexRefuses(op, coll, doc, self) ==
  \E i \in (1 .. Len(coll)) \ {self} :
    IF op = "createCategory"
      THEN coll[i].name = doc.name \/ coll[i].slug = doc.slug
      ELSE coll[i].email = doc.email

\* The handler's own lookup before the write; TRUE when it finds a document.
\* PUT /profile has none.
lookupFinds(op, coll, key) ==
  CASE op = "createUser" ->
         \E i \in 1 .. Len(coll) : coll[i].email = emailSetter(key)
    [] op = "createCategory" ->
         \E i \in 1 .. Len(coll) : SameEmailIgnoringCase(coll[i].name, key)
    [] op = "updateProfile" -> FALSE

collectionOf(op) ==
  CASE op = "createUser" -> "users"
    [] op = "createCategory" -> "categories"
    [] op = "updateProfile" -> "admins"

conflictResponse(op) ==
  IF op = "createUser" THEN Response(400, "User with this email already exists")
  ELSE Response(400, "Category with this name already exists")

catchResponse(op) ==
  CASE op = "createUser" -> Response(500, "Failed to create user")
    [] op = "createCategory" -> Response(500, "Failed to create category")
    [] op = "updateProfile" -> Response(500, "Server error")

UniqueCall(op, key, self) ==
  [pc |-> IF op = "updateProfile" THEN "write" ELSE "lookup",
   op |-> op, out |-> <<>>, key |-> key, self |-> self,
   \* what the request met, recorded for the properties below
   existed |-> FALSE, refused |-> FALSE, wrote |-> FALSE]

InitUnique ==
  /\ admins = SeedAdmins
  /\ now = 0
  /\ ticks = 0
  /\ issued = {}
  /\ loggedOut = NoTok
  /\ req = IdleReq
  /\ last = IdleReq
  /\ db = [users |-> <<>>, categories |-> <<>>,
           admins |-> <<[email |-> <<"a", "@", "x">>], [email |-> <<"b", "@", "x">>]>>]
  /\ calls = NoCalls

\* The request arrives and passes its validators; self is the position of
\* the admin document a profile update writes, 0 for a create.
UniqueStart(l, op, key, self) ==
  /\ calls[l].pc = "idle"
  /\ (op = "updateProfile") = (self > 0)
  /\ key \in keysOf(op)
  /\ Lane(l, [UniqueCall(op, key, self) EXCEPT
                !.existed = indexRefuses(op, db[collectionOf(op)], docOf(op, key), self)])
  /\ UNCHANGED <<vars, db>>

\* The findOne of the create handlers resolved.
UniqueLookup(l) ==
  /\ calls[l].pc = "lookup"
  /\ LET c == calls[l]
     IN  IF lookupFinds(c.op, db[collectionOf(c.op)], c.key)
           THEN Lane(l, Send(c, conflictResponse(c.op)))
         ELSE Lane(l, [c EXCEPT !.pc = "write"])
  /\ UNCHANGED <<vars, db>>

\* Model.create or document.save() settled: the write went in, or a unique
\* index refused it and the rejection reached the handler's catch block.
UniqueWrite(l) ==
  /\ calls[l].pc = "write"
  /\ LET c == calls[l]
         coll == db[collectionOf(c.op)]
         doc == docOf(c.op, c.key)
     IN  IF indexRefuses(c.op, coll, doc, c.self)
           THEN /\ Lane(l, Send([c EXCEPT !.refused = TRUE], catchResponse(c.op)))
                /\ UNCHANGED db
         ELSE /\ db' = [db EXCEPT ![collectionOf(c.op)] =
                          IF c.self > 0 THEN [coll EXCEPT ![c.self] = doc]
                          ELSE Append(coll, doc)]
              /\ Lane(l, Send([c EXCEPT !.wrote = TRUE],
                              Response(IF c.self > 0 THEN 200 ELSE 201, "OK")))
  /\ UNCHANGED vars

NextUnique ==
  \/ \E l \in Lanes, op \in UniqueOps, key \in UserEmails \cup NameInputs,
        self \in 0 .. 2 :
       UniqueStart(l, op, key, self)
  \/ \E l \in Lanes : UniqueLookup(l)
  \/ \E l \in Lanes : UniqueWrite(l)

SpecUnique == InitUnique /\ [][NextUnique]_allVars

\* ---------------------------------------------- claims on unique-key writes
UniqueDone(l) == Done(l) /\ calls[l].op \in UniqueOps

\* C20 as stated: a write whose key is already taken, on arrival or at the
\* moment the unique index is consulted, is answered with the conflict
\* error (400) and leaves the store unchanged.
C20_DuplicateAnswered400 ==
  \A l \in Lanes :
    (UniqueDone(l) /\ (calls[l].existed \/ calls[l].refused)) =>
       Reply(l).status = 400 /\ ~calls[l].wrote

\* ======================================================= the category tree
\* The admin routes that write the parentCategory relation and the cached
\* jobCount of the categories.  POST, PUT and DELETE of a category run on
\* the lanes, one step per await; the job routes and the refresh of a job
\* count run in one step each.
TreeIds == {"g1", "g2"}
TreeJobIds == {"j1"}

\* parentCategory: null (the schema's default), or the id of a category.
NoParent == "null"

TreeOps == {"post", "put", "delete"}

\* A deleted category keeps its id: ObjectIds are not reused.
Tombstone == [parentCategory |-> NoParent, jobCount |-> 0, deleted |-> TRUE]

NewCategory(parent) ==
  [parentCategory |-> parent, jobCount |-> 0, deleted |-> FALSE]

\* Category.find({parentCategory: g}): the subcategories of g.
subCategoriesOf(categories, g) ==
  {k \in Live(categories) : categories[k].parentCategory = g}

\* The jobs whose category is g.
jobsReferencing(jobs, g) == {j \in DOMAIN jobs : jobs[j].category = g}

\* Job.countDocuments({category: g, isActive: true, status: 'active'})
activeJobCount(jobs, g) ==
  Cardinality({j \in jobsReferencing(jobs, g) :
                 jobs[j].isActive /\ jobs[j].status = "active"})

TreeCall(op, g, parent) ==
  [pc |-> "find", op |-> op, out |-> <<>>, g |-> g, parent |-> parent,
   jobCount |-> 0,
   \* what the delete met when it removed the document
   removed |-> FALSE, referenced |-> FALSE, hadChild |-> FALSE]

InitTree ==
  /\ admins = SeedAdmins
  /\ now = 0
  /\ ticks = 0
  /\ issued = {}
  /\ loggedOut = NoTok
  /\ req = IdleReq
  /\ last = IdleReq
  /\ db = [categories |-> NoDocs, jobs |-> NoDocs]
  /\ calls = NoCalls

\* A request arrives: POST with an optional parentCategory, PUT of g with
\* a parentCategory (the validator isMongoId refuses null), DELETE of g.
TreeStart(l, op, g, parent) ==
  /\ calls[l].pc = "idle"
  /\ op = "post" => g = NoParent
  /\ op = "put" => parent # NoParent
  /\ op = "delete" => parent = NoParent
  /\ op # "post" => g # NoParent
  /\ Lane(l, [TreeCall(op, g, parent) EXCEPT
                !.pc = IF op = "post" THEN "find_parent" ELSE "find"])
  /\ UNCHANGED <<vars, db>>

\* POST: if (req.body.parentCategory) Category.findById(parentCategory)
TreePostFindParent(l) ==
  /\ calls[l].pc = "find_parent"
  /\ calls[l].op = "post"
  /\ LET c == calls[l]
     IN  IF c.parent # NoParent /\ c.parent \notin Live(db.categories)
           THEN Lane(l, Send(c, Response(400, "Parent category not found")))
           ELSE Lane(l, [c EXCEPT !.pc = "create"])
  /\ UNCHANGED <<vars, db>>

\* POST: Category.create(req.body)
TreePostCreate(l) ==
  /\ calls[l].pc = "create"
  /\ \E g \in TreeIds \ DOMAIN db.categories :
       /\ db' = [db EXCEPT !.categories =
                   Put(@, g, NewCategory(calls[l].parent))]
       /\ Lane(l, Send([calls[l] EXCEPT !.g = g],
                       Response(201, "Category created successfully")))
  /\ UNCHANGED vars

\* PUT and DELETE: Category.findById(req.params.id).  The PUT goes on to
\* the parent check when the body's parentCategory differs from the
\* category's, and refuses the category's own id.
TreeFind(l) ==
  /\ calls[l].pc = "find"
  /\ LET c == calls[l]
     IN  IF c.g \notin Live(db.categories)
           THEN Lane(l, Send(c, Response(404, "Category not found")))
         ELSE IF c.op = "delete"
           THEN Lane(l, [c EXCEPT !.pc = "find_subs",
                                  !.jobCount = db.categories[c.g].jobCount])
         ELSE IF c.parent = db.categories[c.g].parentCategory
           THEN Lane(l, [c EXCEPT !.pc = "save"])
         ELSE IF c.parent = c.g
           THEN Lane(l, Send(c, Response(400, "Category cannot be its own parent")))
         ELSE Lane(l, [c EXCEPT !.pc = "find_parent"])
  /\ UNCHANGED <<vars, db>>

\* PUT: Category.findById(req.body.parentCategory)
TreePutFindParent(l) ==
  /\ calls[l].pc = "find_parent"
  /\ calls[l].op = "put"
  /\ LET c == calls[l]
     IN  IF c.parent \notin Live(db.categories)
           THEN Lane(l, Send(c, Response(400, "Parent category not found")))
           ELSE Lane(l, [c EXCEPT !.pc = "save"])
  /\ UNCHANGED <<vars, db>>

\* PUT: category.save() writes the modified paths of the loaded document;
\* it throws when the document is gone, and the catch block answers 500.
TreePutSave(l) ==
  /\ calls[l].pc = "save"
  /\ LET c == calls[l]
     IN  IF c.g \notin Live(db.categories)
           THEN /\ Lane(l, Send(c, Response(500, "Failed to update category")))
                /\ UNCHANGED db
           ELSE /\ db' = [db EXCEPT !.categories[c.g].parentCategory = c.parent]
                /\ Lane(l, Send(c, Response(200, "Category updated successfully")))
  /\ UNCHANGED vars

\* DELETE: Category.find({parentCategory: id}), then the jobCount of the
\* document as it was loaded.
TreeDeleteFindSubs(l) ==
  /\ calls[l].pc = "find_subs"
  /\ LET c == calls[l]
     IN  IF subCategoriesOf(db.categories, c.g) # {}
           THEN Lane(l, Send(c, Response(400,
                  "Cannot delete category with subcategories. Please delete subcategories first.")))
         ELSE IF c.jobCount > 0
           THEN Lane(l, Send(c, Response(400,
                  "Cannot delete category with jobs. Please reassign or delete jobs first.")))
         ELSE Lane(l, [c EXCEPT !.pc = "delete"])
  /\ UNCHANGED <<vars, db>>

\* DELETE: Category.findByIdAndDelete(id)
TreeDeleteRemove(l) ==
  /\ calls[l].pc = "delete"
  /\ LET c == calls[l]
     IN  /\ db' = [db EXCEPT !.categories[c.g] = Tombstone]
         /\ Lane(l, Send([c EXCEPT
                            !.removed = c.g \in Live(db.categories),
                            !.referenced = jobsReferencing(db.jobs, c.g) # {},
                            !.hadChild = subCategoriesOf(db.categories, c.g) # {}],
                         Response(200, "Category deleted successfully")))
  /\ UNCHANGED vars

\* PATCH /api/admin/categories/:id/update-job-count
TreeUpdateJobCount(g) ==
  /\ g \in Live(db.categories)
  /\ db' = [db EXCEPT !.categories[g].jobCount = activeJobCount(db.jobs, g)]
  /\ UNCHANGED <<vars, calls>>

\* The category a job route goes on with: the one found by name, or a new
\* one without a parent.
TreeWithCategory(categories, g) ==
  IF g \in DOMAIN categories THEN categories ELSE Put(categories, g, NewCategory(NoParent))

\* POST /api/admin/jobs: the job is created active; no jobCount is written.
TreeCreateJob(j, g) ==
  /\ j \notin DOMAIN db.jobs
  /\ g \in Live(db.categories) \/ g \notin DOMAIN db.categories
  /\ db' = [categories |-> TreeWithCategory(db.categories, g),
            jobs |-> Put(db.jobs, j,
                       [category |-> g, isActive |-> TRUE, status |-> "active"])]
  /\ UNCHANGED <<vars, calls>>

\* PUT /api/admin/jobs/:id with a category name and isActive in the body.
TreeUpdateJob(j, g, isActive) ==
  /\ j \in DOMAIN db.jobs
  /\ g \in Live(db.categories) \/ g \notin DOMAIN db.categories
  /\ db' = [categories |-> TreeWithCategory(db.categories, g),
            jobs |-> [db.jobs EXCEPT ![j].category = g, ![j].isActive = isActive]]
  /\ UNCHANGED <<vars, calls>>

NextTree ==
  \/ \E l \in Lanes, op \in TreeOps, g \in TreeIds \cup {NoParent},
        parent \in TreeIds \cup {NoParent} : TreeStart(l, op, g, parent)
  \/ \E l \in Lanes : TreePostFindParent(l)
  \/ \E l \in Lanes : TreePostCreate(l)
  \/ \E l \in Lanes : TreeFind(l)
  \/ \E l \in Lanes : TreePutFindParent(l)
  \/ \E l \in Lanes : TreePutSave(l)
  \/ \E l \in Lanes : TreeDeleteFindSubs(l)
  \/ \E l \in Lanes : TreeDeleteRemove(l)
  \/ \E g \in TreeIds : TreeUpdateJobCount(g)
  \/ \E j \in TreeJobIds, g \in TreeIds : TreeCreateJob(j, g)
  \/ \E j \in TreeJobIds, g \in TreeIds, isActive \in BOOLEAN :
       TreeUpdateJob(j, g, isActive)

SpecTree == InitTree /\ [][NextTree]_allVars

\* ------------------------------------------ claims on the category tree
\* C21 as stated: a DELETE of a category removes the document only when no
\* job references the category and the category has no subcategory at that
\* moment; otherwise it is answered 400 and nothing is deleted.
C21_ReferencedCategoryKept ==
  \A l \in Lanes :
    (calls[l].op = "delete" /\ Done(l)) =>
      /\ calls[l].removed => ~calls[l].referenced /\ ~calls[l].hadChild
      /\ Reply(l).status = 200 => ~calls[l].referenced

\* C25 as stated: each category's non-null parentCategory is the id of a
\* category that exists.
C25_ParentExists ==
  \A g \in Live(db.categories) :
    db.categories[g].parentCategory # NoParent =>
      db.categories[g].parentCategory \in Live(db.categories)

\* The categories reached from g by following parentCategory, in at most
\* as many steps as there are categories.
RECURSIVE ancestors(_, _, _)
ancestors(categories, g, n) ==
  IF n = 0 \/ g \notin DOMAIN categories \/ categories[g].parentCategory = NoParent
    THEN {}
    ELSE {categories[g].parentCategory}
           \cup ancestors(categories, categories[g].parentCategory, n - 1)

\* C26 as stated: the parentCategory relation is acyclic, no category is
\* reached from itself by following parentCategory links.
C26_ParentAcyclic ==
  \A g \in Live(db.categories) :
    g \notin ancestors(db.categories, g, Cardinality(TreeIds))

\* ======================================================= enumerated fields
\* The admin routes that write an enumerated path of a stored document:
\* the status of a job, the status of an application, the role of a user.
EnumResources == {"jobs", "applications", "users"}

\* The enum of the path in the schema.
enumValues(resource) ==
  CASE resource = "jobs" -> {"active", "inactive", "expired", "draft"}
    [] resource = "applications" ->
         {"pending", "reviewed", "shortlisted", "interviewed", "hired", "rejected"}
    [] resource = "users" -> {"user", "premium", "employer", "admin"}

\* The default of the path in the schema.
enumDefault(resource) ==
  CASE resource = "jobs" -> "active"
    [] resource = "applications" -> "pending"
    [] resource = "users" -> "user"

\* The values the requests carry: the default, another value of the enum
\* and a string outside of it.
EnumInputs(resource) ==
  {enumDefault(resource), "bogus",
   CASE resource = "jobs" -> "draft"
     [] resource = "applications" -> "hired"
     [] resource = "users" -> "admin"}

EnumRoutes == {"bulk", "single"}

EnumDocId == "d1"

\* body('status').isIn([...]) of the single-document routes; the bulk
\* routes check only that updates is an object.
enumValidators(route, resource, value) ==
  route = "single" => value \in enumValues(resource)

\* The enum validator of the schema: document.save() runs it, and
\* Model.updateMany does not (runValidators is not set).
schemaValidates(route, resource, value) ==
  route = "single" => value \in enumValues(resource)

EnumCall(route, resource, value) ==
  [pc |-> "write", op |-> route, out |-> <<>>,
   resource |-> resource, value |-> value]

InitEnum ==
  /\ admins = SeedAdmins
  /\ now = 0
  /\ ticks = 0
  /\ issued = {}
  /\ loggedOut = NoTok
  /\ req = IdleReq
  /\ last = IdleReq
  /\ db = [r \in EnumResources |-> enumDefault(r)]
  /\ calls = NoCalls

\* The request arrives and passes its validators, before the first await.
\* The key of the bulk request (status, role) is on the allow-list of its
\* resource.
EnumStart(l, route, resource, value) ==
  /\ calls[l].pc = "idle"
  /\ LET c == EnumCall(route, resource, value)
     IN  IF enumValidators(route, resource, value)
           THEN Lane(l, c)
           ELSE Lane(l, Send(c, Response(400, "Validation errors")))
  /\ UNCHANGED <<vars, db>>

\* bulk: Model.updateMany({_id: {$in: ids}}, {$set: updates});
\* single: the document is loaded, assigned and saved.
EnumWrite(l) ==
  /\ calls[l].pc = "write"
  /\ LET c == calls[l]
     IN  IF schemaValidates(c.op, c.resource, c.value)
           THEN /\ db' = [db EXCEPT ![c.resource] = c.value]
                /\ Lane(l, Send(c, Response(200, "Updated")))
           ELSE /\ UNCHANGED db
                /\ Lane(l, Send(c, Response(500, "Failed to update")))
  /\ UNCHANGED vars

NextEnum ==
  \/ \E l \in Lanes, route \in EnumRoutes, resource \in EnumResources :
       \E value \in EnumInputs(resource) : EnumStart(l, route, resource, value)
  \/ \E l \in Lanes : EnumWrite(l)

SpecEnum == InitEnum /\ [][NextEnum]_allVars

\* ------------------------------------------- claims on enumerated fields
\* C24 as stated: in every reachable state each job's status, each
\* application's status and each user's role is a value of its enum.
C24_EnumeratedFieldsInEnum ==
  \A r \in EnumResources : db[r] \in enumValues(r)

\* ================================ PATCH /api/admin/jobs/:id/toggle-status
\* The toggle of a job runs on the lanes, one step per await; PUT and
\* DELETE of the job run in one step each.
ToggleJobIds == {"j1"}

JobStatuses == {"active", "inactive", "expired", "draft"}

\* job.isActive = !job.isActive, without the lines on job.status.
toggleKeepsStatus(job) == [job EXCEPT !.isActive = ~@]

\* job.isActive = !job.isActive;
\* if (!job.isActive) job.status = 'inactive';
\* else if (job.status === 'inactive') job.status = 'active';
toggle(job) ==
  [job EXCEPT !.isActive = ~@,
              !.status = IF job.isActive THEN "inactive"
                         ELSE IF @ = "inactive" THEN "active" ELSE @]

\* document.save() writes the paths whose value differs from the loaded
\* one onto the stored document.
saveModified(stored, loaded, assigned) ==
  [f \in DOMAIN stored |->
     IF assigned[f] # loaded[f] THEN assigned[f] ELSE stored[f]]

\* POST /api/admin/jobs creates a job with status 'active' and isActive true.
NewJob == [isActive |-> TRUE, status |-> "active"]

ToggleCall(j) ==
  [pc |-> "find", op |-> "toggle", out |-> <<>>, job |-> j,
   loaded |-> NewJob, assigned |-> NewJob,
   \* the stored job right after the save, and whether another request
   \* wrote the job between the load and the save
   saved |-> NewJob, changed |-> FALSE]

InitToggle ==
  /\ admins = SeedAdmins
  /\ now = 0
  /\ ticks = 0
  /\ issued = {}
  /\ loggedOut = NoTok
  /\ req = IdleReq
  /\ last = IdleReq
  /\ db = [jobs |-> [j \in ToggleJobIds |-> NewJob]]
  /\ calls = NoCalls

ToggleStart(l, j) ==
  /\ calls[l].pc = "idle"
  /\ Lane(l, ToggleCall(j))
  /\ UNCHANGED <<vars, db>>

\* Job.findById resolved; the handler assigns isActive and status.
ToggleFind(l) ==
  /\ calls[l].pc = "find"
  /\ LET c == calls[l]
     IN  IF c.job \notin DOMAIN db.jobs
           THEN Lane(l, Send(c, Response(404, "Job not found")))
           ELSE Lane(l, [c EXCEPT !.pc = "save",
                                  !.loaded = db.jobs[c.job],
                                  !.assigned = toggle(db.jobs[c.job])])
  /\ UNCHANGED <<vars, db>>

\* job.save() settled; the answer reports the handler's document.
ToggleSave(l) ==
  /\ calls[l].pc = "save"
  /\ LET c == calls[l]
     IN  IF c.job \notin DOMAIN db.jobs
           THEN /\ Lane(l, Send(c, Response(500, "Failed to toggle job status")))
                /\ UNCHANGED db
           ELSE LET doc == saveModified(db.jobs[c.job], c.loaded, c.assigned)
                IN  /\ db' = [db EXCEPT !.jobs[c.job] = doc]
                    /\ Lane(l, Send([c EXCEPT !.saved = doc,
                                              !.changed = db.jobs[c.job] # c.loaded],
                                    Response(200,
                                      IF c.assigned.isActive
                                        THEN "Job activated successfully"
                                        ELSE "Job deactivated successfully")))
  /\ UNCHANGED vars

\* PUT /api/admin/jobs/:id with status and isActive in the body.
TogglePutJob(j, isActive, status) ==
  /\ j \in DOMAIN db.jobs
  /\ db' = [db EXCEPT !.jobs[j] = [isActive |-> isActive, status |-> status]]
  /\ UNCHANGED <<vars, calls>>

\* DELETE /api/admin/jobs/:id
ToggleDeleteJob(j) ==
  /\ j \in DOMAIN db.jobs
  /\ db' = [db EXCEPT !.jobs = [k \in DOMAIN db.jobs \ {j} |-> db.jobs[k]]]
  /\ UNCHANGED <<vars, calls>>

NextToggle ==
  \/ \E l \in Lanes, j \in ToggleJobIds : ToggleStart(l, j)
  \/ \E l \in Lanes : ToggleFind(l)
  \/ \E l \in Lanes : ToggleSave(l)
  \/ \E j \in ToggleJobIds, isActive \in BOOLEAN, status \in JobStatuses :
       TogglePutJob(j, isActive, status)
  \/ \E j \in ToggleJobIds : ToggleDeleteJob(j)

SpecToggle == InitToggle /\ [][NextToggle]_allVars

\* ------------------------------------------------- claims on the toggle
Toggled(l) == Done(l) /\ calls[l].op = "toggle" /\ Reply(l).status = 200

\* The relation of C22 between the job before and after a toggle.
ToggleRelation(before, after) ==
  /\ after.isActive = ~before.isActive
  /\ ~after.isActive => after.status = "inactive"
  /\ after.isActive =>
       /\ after.status = IF before.status = "inactive" THEN "active"
                         ELSE before.status
       /\ after.status # "inactive"

\* C22: a toggle inverts the job's isActive; a job that becomes inactive
\* gets the status 'inactive', a job that becomes active gets 'active' in
\* place of 'inactive' and keeps any other status.  This holds of the
\* document the handler assigns and reports, and of the stored job right
\* after the save when no other request wrote the job since the load.
C22_ToggleKeepsStatusInStep ==
  \A l \in Lanes :
    Toggled(l) =>
      /\ ToggleRelation(calls[l].loaded, calls[l].assigned)
      /\ ~calls[l].changed => ToggleRelation(calls[l].loaded, calls[l].saved)

\* An inactive job with the status 'expired' was toggled: it is active and
\* still 'expired'; and an active job was toggled to inactive.
C22_Witness ==
  \E l, k \in Lanes :
    /\ Toggled(l) /\ ~calls[l].changed
    /\ ~calls[l].loaded.isActive /\ calls[l].loaded.status = "expired"
    /\ calls[l].saved = [isActive |-> TRUE, status |-> "expired"]
    /\ Toggled(k) /\ ~calls[k].changed
    /\ calls[k].loaded.isActive
    /\ calls[k].saved = [isActive |-> FALSE, status |-> "inactive"]

\* ================================================ GET /api/jobs/:id (views)
\* The public read of a job, which counts the views of the job.
ViewJobIds == {"j1", "j2"}

ViewCall(j) ==
  [pc |-> "find", op |-> "view", out |-> <<>>, job |-> j, views |-> 0]

InitView ==
  /\ admins = SeedAdmins
  /\ now = 0
  /\ ticks = 0
  /\ issued = {}
  /\ loggedOut = NoTok
  /\ req = IdleReq
  /\ last = IdleReq
  /\ db = [jobs |-> [j \in ViewJobIds |-> [isActive |-> TRUE, views |-> 0]]]
  /\ calls = NoCalls

ViewStart(l, j) ==
  /\ calls[l].pc = "idle"
  /\ Lane(l, ViewCall(j))
  /\ UNCHANGED <<vars, db>>

\* Job.findById resolved: 404 for a missing or inactive job, otherwise
\* job.views += 1 on the loaded document.
ViewFind(l) ==
  /\ calls[l].pc = "find"
  /\ LET c == calls[l]
     IN  IF c.job \notin DOMAIN db.jobs
           THEN Lane(l, Send(c, Response(404, "Job not found")))
         ELSE IF ~db.jobs[c.job].isActive
           THEN Lane(l, Send(c, Response(404, "Job is no longer active")))
         ELSE Lane(l, [c EXCEPT !.pc = "save",
                                !.views = db.jobs[c.job].views + 1])
  /\ UNCHANGED <<vars, db>>

\* job.save() settled: the assigned number is written ($set), or the save
\* of a job deleted in the meantime rejects.
ViewSave(l) ==
  /\ calls[l].pc = "save"
  /\ LET c == calls[l]
     IN  IF c.job \notin DOMAIN db.jobs
           THEN /\ Lane(l, Send(c, Response(500, "Server error")))
                /\ UNCHANGED db
           ELSE /\ db' = [db EXCEPT !.jobs[c.job].views = c.views]
                /\ Lane(l, Send(c, Response(200, "job")))
  /\ UNCHANGED vars

\* PUT /api/jobs/:id with {isActive: false}
ViewDeactivateJob(j) ==
  /\ j \in DOMAIN db.jobs
  /\ db.jobs[j].isActive
  /\ db' = [db EXCEPT !.jobs[j].isActive = FALSE]
  /\ UNCHANGED <<vars, calls>>

\* DELETE /api/jobs/:id
ViewDeleteJob(j) ==
  /\ j \in DOMAIN db.jobs
  /\ db' = [db EXCEPT !.jobs = [k \in DOMAIN db.jobs \ {j} |-> db.jobs[k]]]
  /\ UNCHANGED <<vars, calls>>

NextView ==
  \/ \E l \in Lanes, j \in ViewJobIds : ViewStart(l, j)
  \/ \E l \in Lanes : ViewFind(l)
  \/ \E l \in Lanes : ViewSave(l)
  \/ \E j \in ViewJobIds : ViewDeactivateJob(j)
  \/ \E j \in ViewJobIds : ViewDeleteJob(j)

SpecView == InitView /\ [][NextView]_allVars

\* --------------------------------------------------- claims on the views
\* The requests for job j that completed with the job in their answer.
Viewed(j) ==
  {l \in Lanes : Done(l) /\ calls[l].op = "view" /\ calls[l].job = j
                   /\ Reply(l).status = 200}

\* C27 as stated: after n successful reads of a job have completed, in any
\* interleaving, the views of the job have increased by exactly n.
C27_ViewsCountReads ==
  \A j \in DOMAIN db.jobs : db.jobs[j].views = Cardinality(Viewed(j))

\* ================================== admin auth routes and the privileges
\* The routes of /api/admin/auth as writers of the admin documents: login,
\* PUT /profile, PUT /change-password, logout, permissions and refresh, on
\* the lanes with one step per await, for the second principal.  The
\* bodies carry keys the handlers do not read; the role, the permissions
\* and the isActive flag change only by the operator's own writes.
FrameOps ==
  {"login", "profile", "change-password", "logout", "permissions", "refresh"}

FrameId == "a2"

\* The keys of a request body, and the value each key carries.
BodyKeys == {"email", "role", "permissions", "isActive"}

BodyKeySets == {{}, {"email"}, {"role", "permissions", "isActive"}, BodyKeys}

bodyValue(key) ==
  CASE key = "email" -> <<"z", "@", "x">>
    [] key = "role" -> "super_admin"
    [] key = "permissions" -> {"manage_admins"}
    [] key = "isActive" -> TRUE

\* Object.keys(req.body).forEach(key => admin[key] = req.body[key])
assignBody(doc, keys) ==
  [f \in DOMAIN doc |-> IF f \in keys THEN bodyValue(f) ELSE doc[f]]

\* const { firstName, lastName, email, phone, department, profileImage }
\*   = req.body; if (email) admin.email = email; ...
profileFields ==
  {"firstName", "lastName", "email", "phone", "department", "profileImage"}

assignProfile(doc, keys) ==
  [f \in DOMAIN doc |->
     IF f \in keys \cap profileFields THEN bodyValue(f) ELSE doc[f]]

FrameCall(op, keys, password) ==
  [pc |-> IF op = "login" THEN "load" ELSE "gate", op |-> op, out |-> <<>>,
   keys |-> keys, password |-> password, loaded |-> NoDoc, assigned |-> NoDoc,
   wrote |-> FALSE]

\* The answer leaves; the handler's documents are dropped.
FrameSend(c, resp) == Send([c EXCEPT !.loaded = NoDoc, !.assigned = NoDoc], resp)

InitFrame ==
  /\ admins = SeedAdmins
  /\ now = 1
  /\ ticks = 0
  /\ issued = {}
  /\ loggedOut = NoTok
  /\ req = IdleReq
  /\ last = IdleReq
  /\ db = <<>>
  /\ calls = NoCalls

FrameStart(l, op, keys, password) ==
  /\ calls[l].pc = "idle"
  /\ op # "profile" => keys = BodyKeys
  /\ op \notin {"login", "change-password"} => password = Plain("secret2")
  /\ Lane(l, FrameCall(op, keys, password))
  /\ UNCHANGED <<vars, db>>

\* protect: Admin.findById(decoded.id) and the isActive check; logout and
\* permissions answer from req.admin.
FrameGate(l) ==
  /\ calls[l].pc = "gate"
  /\ LET c == calls[l]
     IN  IF ~admins[FrameId].isActive
           THEN Lane(l, FrameSend(c, Response(401, "Account is deactivated")))
         ELSE IF c.op \in {"logout", "permissions"}
           THEN Lane(l, FrameSend(c, Response(200, c.op)))
         ELSE Lane(l, [c EXCEPT !.pc = "load"])
  /\ UNCHANGED <<vars, db>>

\* The handler's own load of the document, its checks and its assignments.
FrameLoad(l) ==
  /\ calls[l].pc = "load"
  /\ LET c == calls[l]
         doc == admins[FrameId]
     IN  CASE c.op = "login" ->
                IF ~doc.isActive
                  THEN Lane(l, FrameSend(c, Response(401, "Account is deactivated")))
                ELSE IF ~comparePassword(doc, c.password)
                  THEN Lane(l, FrameSend(c, Response(401, "Invalid credentials")))
                ELSE Lane(l, [c EXCEPT !.pc = "save", !.loaded = doc,
                                       !.assigned = [doc EXCEPT !.lastLogin = now]])
           [] c.op = "profile" ->
                Lane(l, [c EXCEPT !.pc = "save", !.loaded = doc,
                                  !.assigned = assignProfile(doc, c.keys)])
           [] c.op = "change-password" ->
                IF ~comparePassword(doc, Plain("secret2"))
                  THEN Lane(l, FrameSend(c, Response(400, "Current password is incorrect")))
                  ELSE Lane(l, [c EXCEPT !.pc = "save", !.loaded = doc,
                                         !.assigned = [doc EXCEPT !.password = c.password]])
           [] c.op = "refresh" ->
                IF ~doc.isActive
                  THEN Lane(l, FrameSend(c, Response(401, "Admin not found or inactive")))
                  ELSE Lane(l, FrameSend(c, Response(200, "Token refreshed successfully")))
  /\ UNCHANGED <<vars, db>>

\* admin.save()
FrameSave(l) ==
  /\ calls[l].pc = "save"
  /\ LET c == calls[l]
     IN  /\ admins' = save(admins, FrameId, c.loaded, c.assigned, now)
         /\ Lane(l, FrameSend([c EXCEPT !.wrote = c.assigned # c.loaded],
                              Response(200, c.op)))
  /\ UNCHANGED <<now, ticks, issued, loggedOut, req, last, db>>

\* The operator's own write to the admin collection (no route of the
\* backend writes these fields).
FrameOperatorWrite(role, isActive) ==
  /\ admins[FrameId].role # role \/ admins[FrameId].isActive # isActive
  /\ admins' = [admins EXCEPT ![FrameId].role = role, ![FrameId].isActive = isActive]
  /\ UNCHANGED <<now, ticks, issued, loggedOut, req, last, db, calls>>

NextFrame ==
  \/ \E l \in Lanes, op \in FrameOps, keys \in BodyKeySets,
        password \in {Plain("secret2"), Plain("secret3")} :
       FrameStart(l, op, keys, password)
  \/ \E l \in Lanes : FrameGate(l)
  \/ \E l \in Lanes : FrameLoad(l)
  \/ \E l \in Lanes : FrameSave(l)
  \/ \E role \in {"admin", "moderator"}, isActive \in BOOLEAN :
       FrameOperatorWrite(role, isActive)

SpecFrame == InitFrame /\ [][NextFrame]_allVars

\* ------------------------------------------- claims on the auth routes
\* The role, the permissions and the isActive flag of every stored admin.
privileges(store) ==
  [id \in DOMAIN store |->
     <<store[id].role, store[id].permissions, store[id].isActive>>]

\* C29: no step of a request to the admin auth routes changes the role,
\* the permissions or the isActive flag of any stored admin, whatever its
\* body carries.
C29_AuthRoutesKeepPrivileges ==
  [][calls' # calls => privileges(admins') = privileges(admins)]_allVars

\* A profile update whose body carried role, permissions and isActive next
\* to an email was saved: the email is the body's, and the admin's role
\* and permissions are not.
C29_Witness ==
  \E l \in Lanes :
    /\ Done(l) /\ calls[l].op = "profile" /\ calls[l].keys = BodyKeys
    /\ calls[l].wrote
    /\ admins[FrameId].email = bodyValue("email")
    /\ admins[FrameId].role # bodyValue("role")
    /\ admins[FrameId].permissions # bodyValue("permissions")

\* ========================== GET /api/admin/dashboard/stats (monthly counts)
\* Instants are counted from the first instant of month 0; every day has
\* DayLength instants, the first of them midnight, and every month has
\* MonthDays days.
DayLength == 2
MonthDays == 2
MaxMonths == 2

MonthLength == MonthDays * DayLength
Instants == 0 .. (MaxMonths * MonthLength - 1)

\* currentDate.getFullYear(), currentDate.getMonth(): the calendar month.
monthOf(t) == t \div MonthLength

\* new Date(year, month, day): midnight of that day; day 0 is the last day
\* of the month before.
dateOf(month, day) == month * MonthLength + (day - 1) * DayLength

\* new Date(currentDate.getFullYear(), currentDate.getMonth(), 1)
startOfMonth(t) == dateOf(monthOf(t), 1)

\* new Date(currentDate.getFullYear(), currentDate.getMonth() + 1, 0)
endOfMonth(t) == dateOf(monthOf(t) + 1, 0)

\* Model.countDocuments({createdAt: {$gte: lo, $lte: hi}})
countCreatedBetween(docs, lo, hi) ==
  Cardinality({d \in DOMAIN docs : lo <= docs[d] /\ docs[d] <= hi})

\* The documents created in the calendar month of the instant t.
createdInMonthOf(docs, t) == {d \in DOMAIN docs : monthOf(docs[d]) = monthOf(t)}

MonthDocIds == {"d1", "d2"}

MonthCall ==
  [pc |-> "query", op |-> "stats", out |-> <<>>, monthly |-> 0, expected |-> 0]

InitMonth ==
  /\ admins = SeedAdmins
  /\ now = 0
  /\ ticks = 0
  /\ issued = {}
  /\ loggedOut = NoTok
  /\ req = IdleReq
  /\ last = IdleReq
  /\ db = [clock |-> 0, docs |-> NoDocs]
  /\ calls = NoCalls

\* Time passes.
MonthTick ==
  /\ db.clock + 1 \in Instants
  /\ db' = [db EXCEPT !.clock = @ + 1]
  /\ UNCHANGED <<vars, calls>>

\* A document of one of the four counted collections is created;
\* timestamps: true stamps createdAt.
MonthCreate(d) ==
  /\ d \notin DOMAIN db.docs
  /\ db' = [db EXCEPT !.docs = Put(@, d, db.clock)]
  /\ UNCHANGED <<vars, calls>>

MonthStart(l) ==
  /\ calls[l].pc = "idle"
  /\ Lane(l, MonthCall)
  /\ UNCHANGED <<vars, db>>

\* currentDate = new Date(); the bounds; the count is taken.
MonthQuery(l) ==
  /\ calls[l].pc = "query"
  /\ Lane(l, [calls[l] EXCEPT
                !.pc = "answer",
                !.monthly = countCreatedBetween(db.docs, startOfMonth(db.clock),
                                                endOfMonth(db.clock)),
                !.expected = Cardinality(createdInMonthOf(db.docs, db.clock))])
  /\ UNCHANGED <<vars, db>>

\* res.json with the monthly counts.
MonthAnswer(l) ==
  /\ calls[l].pc = "answer"
  /\ Lane(l, Send(calls[l], Response(200, "stats")))
  /\ UNCHANGED <<vars, db>>

NextMonth ==
  \/ MonthTick
  \/ \E d \in MonthDocIds : MonthCreate(d)
  \/ \E l \in Lanes : MonthStart(l)
  \/ \E l \in Lanes : MonthQuery(l)
  \/ \E l \in Lanes : MonthAnswer(l)

SpecMonth == InitMonth /\ [][NextMonth]_allVars

\* ----------------------------------------------- claims on monthly counts
\* C30 as stated: the monthly count of a stats request is the number of
\* documents whose createdAt lies in the calendar month of the request,
\* from the first instant of its first day through the last instant of
\* its last day.
C30_MonthlyCountsWholeMonth ==
  \A l \in Lanes :
    (Done(l) /\ calls[l].op = "stats") => calls[l].monthly = calls[l].expected

====
